---- MODULE Spec2Model ----
(***************************************************************************)
(* Model of ts-discord-status: the bridge service (internal/bridge) that   *)
(* polls the TeamSpeak service (internal/teamspeak) and applies the        *)
(* snapshot to one Discord message through the Discord service             *)
(* (internal/discord), including the rate-limited channel rename.          *)
(*                                                                         *)
(* Two goroutines are modelled: the caller of bridge Start/Stop (mainPC)   *)
(* and the loop goroutine (loopPC).  Time is counted in whole minutes      *)
(* since the process started.                                              *)
(***************************************************************************)
EXTENDS Integers, Sequences, FiniteSets, TLC

\* ---------------------------------------------------------------- bounds
MaxMsgs == 1        \* messages present in the Discord channel at start
MaxHistory == 3     \* the same, when only Start is explored
MaxUsers == 2       \* largest TotalUsers a snapshot reports
MaxTicks == 2       \* ticks the loop receives during one process lifetime
MaxTime == 6        \* minutes of wall clock that are explored

\* ------------------------------------------------------ program constants
MessageLimit == 50          \* ChannelMessages(..., 50, ...)
Cooldown == 5               \* 5*time.Minute, in minutes
MaxDuration == 153722867    \* math.MaxInt64 nanoseconds, in whole minutes
ZeroTime == -1065000000     \* time.Time{} (year 1), minutes before process start
NoMessage == 0              \* messageID == ""
BotID == "bot"              \* s.session.State.User.ID
OtherID == "other"          \* any other author

Nil == [nil |-> TRUE]       \* a nil *teamspeak.State

Second == 1000               \* time.Second, in milliseconds
Minute == 60 * Second
Hour == 60 * Minute

VARIABLES
    \* bridge service and its two goroutines
    mainPC,             \* position of the goroutine calling bridge Start / Stop
    loopPC,             \* position of the loop goroutine
    done,               \* s.done is closed
    wg,                 \* s.wg counter
    cancelled,          \* ctx is cancelled
    tickPending,        \* a tick is buffered in ticker.C
    state,              \* the snapshot held by the running update()
    startResult,        \* what bridge Start returned: "none", "nil", "err"
    stopResult,         \* what bridge Stop returned
    lastUpdate,         \* what the last finished update() returned
    \* teamspeak service
    client,             \* s.client: "nil" or "open"
    \* discord service
    session,            \* s.session: "nil", "open", "closed" (non-nil, closed)
    messageID,
    lastUserCount,
    lastChannelRename,
    nameFormat,         \* display.ChannelNameFormat != ""
    \* Discord side
    channel,            \* messages of the channel, newest first
    channelName,        \* current name of the channel
    \* clock
    now,
    \* observation of the calls made
    lifecycle,          \* Start/Stop calls on the collaborators, in order
    calls,              \* calls made by the current / last update()
    creates,            \* ChannelMessageSendEmbed calls that succeeded
    editTargets,        \* message ids ChannelMessageEditEmbed was called with
    gate,               \* what the last run of maybeUpdateChannelName did
    tickerSyncs,        \* update() calls begun by the loop
    initialSyncs,       \* update() calls begun by Start
    \* data path: server query answers, snapshot, embed
    tsChannels,         \* answer of Server.ChannelList
    tsClients,          \* answer of Server.ClientList
    snapshot,           \* the *teamspeak.State built from them, or Nil
    display,            \* s.display of the discord service
    lastEmbed,          \* what the last buildEmbed returned, or Nil
    prevEmbed,          \* what the buildEmbed before it returned, or Nil
    \* configuration
    configFile,         \* the YAML document at configPath
    loaded,             \* what config.Load returned: cfg and err
    bridgeCfg,          \* s.cfg of the bridge service, or NilConfig before NewService
    \* callers of the discord service
    mu,                 \* s.mu: "free", or the caller that holds it
    callers,            \* per caller: position, method, argument, result
    renameLog           \* the ChannelEdit calls made, in order, with their outcome

bridgeVars == <<mainPC, loopPC, done, wg, cancelled, tickPending, state,
                startResult, stopResult, lastUpdate>>
discordVars == <<session, messageID, lastUserCount, lastChannelRename, nameFormat>>
remoteVars == <<channel, channelName>>
obsVars == <<lifecycle, calls, creates, editTargets, gate, tickerSyncs, initialSyncs>>
dataVars == <<tsChannels, tsClients, snapshot, display, lastEmbed, prevEmbed>>
configVars == <<configFile, loaded, bridgeCfg>>
lockVars == <<mu, callers, renameLog>>
vars == <<bridgeVars, client, discordVars, remoteVars, now, obsVars, dataVars,
          configVars, lockVars>>

\* ------------------------------------------------------------- data types
Embeds == {<<>>, <<[kind |-> "old"]>>}
Authors == {BotID, OtherID}

\* teamspeak.State, reduced to the fields the sink's control flow reads
Snapshots ==
    [TotalUsers : 0..MaxUsers, MaxClients : {MaxUsers, MaxUsers + 1},
     ServerName : {"TS"}]

\* channel histories: ids grow with age reversed (newest first, largest id)
Histories(max) ==
    UNION {{[i \in 1..n |-> [ID |-> n + 1 - i, Author |-> a[i], Embeds |-> e[i]]] :
              a \in [1..n -> Authors], e \in [1..n -> Embeds]} : n \in 0..max}

Min(a, b) == IF a < b THEN a ELSE b

\* Since that counts from the start of the process when t is the zero time
Since_FromStart(t) == IF t = ZeroTime THEN now ELSE Min(now - t, MaxDuration)

\* time.Since(t): now.Sub(t), saturating at the largest Duration
Since(t) == Min(now - t, MaxDuration)


\* ------------------------------------------------------ teamspeak service
\* Start: NewClient, Login and Use each may fail; only full success stores
\* the client.
TSStartOutcomes == {"ok", "connect_err", "login_err", "use_err"}

teamspeakStart(outcome) ==
    IF outcome = "ok" THEN [err |-> FALSE, client |-> "open"]
    ELSE [err |-> TRUE, client |-> client]

teamspeakStop == [err |-> FALSE, client |-> "nil"]

\* GetState: not connected, or a query fails, or the snapshot snap is built
GetState(fetchOK, snap) ==
    IF client = "nil" THEN [err |-> TRUE, state |-> Nil]
    ELSE IF ~fetchOK THEN [err |-> TRUE, state |-> Nil]
    ELSE [err |-> FALSE, state |-> snap]

\* -------------------------------------------------------- discord service
\* buildEmbed, reduced to the branch taken: the "connecting" placeholder for a
\* nil state, a status embed otherwise
embedKind(st) ==
    IF st = Nil THEN [kind |-> "connecting"] ELSE [kind |-> "status"]

\* session.ChannelMessages(channelID, 50, ...): the newest messages, at most limit
ChannelMessages(ch, limit) == SubSeq(ch, 1, Min(Len(ch), limit))

\* FindOwn taking the last match of the listing instead of the first
FindOwn_Oldest(messages) ==
    LET own == {i \in 1..Len(messages) :
                   messages[i].Author = BotID /\ Len(messages[i].Embeds) > 0}
    IN IF own = {} THEN 0 ELSE CHOOSE i \in own : \A j \in own : i >= j

\* the loop "for _, msg := range messages": index of the first own message
\* with an embed, 0 when there is none
FindOwn(messages) ==
    LET own == {i \in 1..Len(messages) :
                   messages[i].Author = BotID /\ Len(messages[i].Embeds) > 0}
    IN IF own = {} THEN 0 ELSE CHOOSE i \in own : \A j \in own : i <= j

\* id Discord gives a new message: larger than every id in the channel
NextID(ch) == Len(ch) + 1

\* findOrCreateMessage that forgets to record the id of the message it creates
findOrCreateMessage_NoRecord(fp) ==
    IF fp = "list"
    THEN [err |-> TRUE, messageID |-> messageID, channel |-> channel,
          created |-> 0, adopted |-> FALSE]
    ELSE LET messages == ChannelMessages(channel, MessageLimit)
             i == FindOwn(messages)
         IN IF i # 0
            THEN [err |-> FALSE, messageID |-> messages[i].ID, channel |-> channel,
                  created |-> 0, adopted |-> TRUE]
            ELSE IF fp = "create"
            THEN [err |-> TRUE, messageID |-> messageID, channel |-> channel,
                  created |-> 0, adopted |-> FALSE]
            ELSE LET msg == [ID |-> NextID(channel), Author |-> BotID,
                             Embeds |-> <<embedKind(Nil)>>]
                 IN [err |-> FALSE, messageID |-> messageID,
                     channel |-> <<msg>> \o channel,
                     created |-> 1, adopted |-> FALSE]

\* findOrCreateMessage; fp names the remote call that fails, if it is reached
findOrCreateMessage(fp) ==
    IF fp = "list"
    THEN [err |-> TRUE, messageID |-> messageID, channel |-> channel,
          created |-> 0, adopted |-> FALSE]
    ELSE LET messages == ChannelMessages(channel, MessageLimit)
             i == FindOwn(messages)
         IN IF i # 0
            THEN [err |-> FALSE, messageID |-> messages[i].ID, channel |-> channel,
                  created |-> 0, adopted |-> TRUE]
            ELSE IF fp = "create"
            THEN [err |-> TRUE, messageID |-> messageID, channel |-> channel,
                  created |-> 0, adopted |-> FALSE]
            ELSE LET msg == [ID |-> NextID(channel), Author |-> BotID,
                             Embeds |-> <<embedKind(Nil)>>]
                 IN [err |-> FALSE, messageID |-> msg.ID,
                     channel |-> <<msg>> \o channel,
                     created |-> 1, adopted |-> FALSE]

DiscordFailPoints == {"none", "new", "open", "list", "create"}

\* Start of the discord service
discordStart(fp) ==
    IF fp \in {"new", "open"}
    THEN [err |-> TRUE, session |-> session, messageID |-> messageID,
          channel |-> channel, created |-> 0, adopted |-> FALSE]
    ELSE LET r == findOrCreateMessage(fp)
         IN [err |-> r.err,
             session |-> IF r.err THEN "closed" ELSE "open",
             messageID |-> r.messageID, channel |-> r.channel,
             created |-> r.created, adopted |-> r.adopted]

discordStop == [err |-> FALSE, session |-> "nil"]

\* a channel name format is a tuple of pieces, a placeholder being one piece
DefaultFormat == <<"{online}", "/", "{max}">>

\* strings.ReplaceAll(name, old, new) on a name of pieces
ReplaceAll(name, old, new) ==
    [i \in 1..Len(name) |-> IF name[i] = [lit |-> old] THEN new ELSE name[i]]

\* formatChannelName that fills {online} with the capacity and {max} with the count
formatChannelName_Swapped(format, st) ==
    LET newName == [i \in 1..Len(format) |-> [lit |-> format[i]]]
        withOnline == ReplaceAll(newName, "{online}", [num |-> st.MaxClients])
        withMax == ReplaceAll(withOnline, "{max}", [num |-> st.TotalUsers])
    IN ReplaceAll(withMax, "{server}", [lit |-> st.ServerName])

\* the three replacements of maybeUpdateChannelName, in their order
formatChannelName(format, st) ==
    LET newName == [i \in 1..Len(format) |-> [lit |-> format[i]]]
        withOnline == ReplaceAll(newName, "{online}", [num |-> st.TotalUsers])
        withMax == ReplaceAll(withOnline, "{max}", [num |-> st.MaxClients])
    IN ReplaceAll(withMax, "{server}", [lit |-> st.ServerName])

\* the channel name built from display.ChannelNameFormat
ChannelName(st) == formatChannelName(display.ChannelNameFormat, st)

\* maybeUpdateChannelName without the comparison of the count
maybeUpdateChannelName_NoCountCheck(st, renameOK) ==
    LET keep == [lastUserCount |-> lastUserCount,
                 lastChannelRename |-> lastChannelRename,
                 channelName |-> channelName, renameCalls |-> 0]
    IN IF FALSE
       THEN keep @@ [outcome |-> "unchanged"]
       ELSE IF Since(lastChannelRename) < Cooldown
       THEN keep @@ [outcome |-> "cooldown"]
       ELSE IF ~renameOK
       THEN [keep EXCEPT !.renameCalls = 1] @@ [outcome |-> "failed"]
       ELSE [lastUserCount |-> st.TotalUsers, lastChannelRename |-> now,
             channelName |-> ChannelName(st), renameCalls |-> 1,
             outcome |-> "renamed"]

\* maybeUpdateChannelName that also skips at exactly five minutes
maybeUpdateChannelName_StrictCooldown(st, renameOK) ==
    LET keep == [lastUserCount |-> lastUserCount,
                 lastChannelRename |-> lastChannelRename,
                 channelName |-> channelName, renameCalls |-> 0]
    IN IF st.TotalUsers = lastUserCount
       THEN keep @@ [outcome |-> "unchanged"]
       ELSE IF Since(lastChannelRename) <= Cooldown
       THEN keep @@ [outcome |-> "cooldown"]
       ELSE IF ~renameOK
       THEN [keep EXCEPT !.renameCalls = 1] @@ [outcome |-> "failed"]
       ELSE [lastUserCount |-> st.TotalUsers, lastChannelRename |-> now,
             channelName |-> ChannelName(st), renameCalls |-> 1,
             outcome |-> "renamed"]

\* maybeUpdateChannelName that records the count and time before checking the error
maybeUpdateChannelName_RecordOnFailure(st, renameOK) ==
    LET keep == [lastUserCount |-> lastUserCount,
                 lastChannelRename |-> lastChannelRename,
                 channelName |-> channelName, renameCalls |-> 0]
    IN IF st.TotalUsers = lastUserCount
       THEN keep @@ [outcome |-> "unchanged"]
       ELSE IF Since(lastChannelRename) < Cooldown
       THEN keep @@ [outcome |-> "cooldown"]
       ELSE IF ~renameOK
       THEN [keep EXCEPT !.renameCalls = 1, !.lastUserCount = st.TotalUsers,
                         !.lastChannelRename = now] @@ [outcome |-> "failed"]
       ELSE [lastUserCount |-> st.TotalUsers, lastChannelRename |-> now,
             channelName |-> ChannelName(st), renameCalls |-> 1,
             outcome |-> "renamed"]

\* maybeUpdateChannelName that restarts the five minutes at every skipped rename
maybeUpdateChannelName_RestartCooldown(st, renameOK) ==
    LET keep == [lastUserCount |-> lastUserCount,
                 lastChannelRename |-> lastChannelRename,
                 channelName |-> channelName, renameCalls |-> 0]
    IN IF st.TotalUsers = lastUserCount
       THEN keep @@ [outcome |-> "unchanged"]
       ELSE IF Since(lastChannelRename) < Cooldown
       THEN [keep EXCEPT !.lastChannelRename = now] @@ [outcome |-> "cooldown"]
       ELSE IF ~renameOK
       THEN [keep EXCEPT !.renameCalls = 1] @@ [outcome |-> "failed"]
       ELSE [lastUserCount |-> st.TotalUsers, lastChannelRename |-> now,
             channelName |-> ChannelName(st), renameCalls |-> 1,
             outcome |-> "renamed"]

\* maybeUpdateChannelName without the rate limit
maybeUpdateChannelName_NoCooldown(st, renameOK) ==
    LET keep == [lastUserCount |-> lastUserCount,
                 lastChannelRename |-> lastChannelRename,
                 channelName |-> channelName, renameCalls |-> 0]
    IN IF st.TotalUsers = lastUserCount
       THEN keep @@ [outcome |-> "unchanged"]
       ELSE IF ~renameOK
       THEN [keep EXCEPT !.renameCalls = 1] @@ [outcome |-> "failed"]
       ELSE [lastUserCount |-> st.TotalUsers, lastChannelRename |-> now,
             channelName |-> ChannelName(st), renameCalls |-> 1,
             outcome |-> "renamed"]

\* maybeUpdateChannelName
maybeUpdateChannelName(st, renameOK) ==
    LET keep == [lastUserCount |-> lastUserCount,
                 lastChannelRename |-> lastChannelRename,
                 channelName |-> channelName, renameCalls |-> 0]
    IN IF st.TotalUsers = lastUserCount
       THEN keep @@ [outcome |-> "unchanged"]
       ELSE IF Since(lastChannelRename) < Cooldown
       THEN keep @@ [outcome |-> "cooldown"]
       ELSE IF ~renameOK
       THEN [keep EXCEPT !.renameCalls = 1] @@ [outcome |-> "failed"]
       ELSE [lastUserCount |-> st.TotalUsers, lastChannelRename |-> now,
             channelName |-> ChannelName(st), renameCalls |-> 1,
             outcome |-> "renamed"]

\* ChannelMessageEditEmbed: the message mid now carries embed
EditMessage(ch, mid, embed) ==
    [i \in 1..Len(ch) |-> IF ch[i].ID = mid
                          THEN [ch[i] EXCEPT !.Embeds = <<embed>>] ELSE ch[i]]

HasMessage(ch, mid) == \E i \in 1..Len(ch) : ch[i].ID = mid

\* UpdateStatus that posts a fresh message when the edit fails
UpdateStatus_Recreate(st, editOK, renameOK) ==
    LET skip == [lastUserCount |-> lastUserCount,
                 lastChannelRename |-> lastChannelRename,
                 channelName |-> channelName, renameCalls |-> 0,
                 outcome |-> "none"]
        base == [err |-> TRUE, edits |-> {}, channel |-> channel,
                 messageID |-> messageID, created |-> 0, gate |-> skip]
        msg == [ID |-> NextID(channel), Author |-> BotID,
                Embeds |-> <<embedKind(st)>>]
    IN IF session = "nil"
       THEN base
       ELSE IF ~(editOK /\ HasMessage(channel, messageID))
       THEN [base EXCEPT !.edits = {messageID}, !.channel = <<msg>> \o channel,
                         !.messageID = msg.ID, !.created = 1]
       ELSE [base EXCEPT !.err = FALSE, !.edits = {messageID},
                         !.channel = EditMessage(channel, messageID, embedKind(st)),
                         !.gate = IF nameFormat /\ st # Nil
                                  THEN maybeUpdateChannelName(st, renameOK)
                                  ELSE skip]

\* UpdateStatus that goes on to the channel name although the edit failed
UpdateStatus_RenameAnyway(st, editOK, renameOK) ==
    LET skip == [lastUserCount |-> lastUserCount,
                 lastChannelRename |-> lastChannelRename,
                 channelName |-> channelName, renameCalls |-> 0,
                 outcome |-> "none"]
        base == [err |-> TRUE, edits |-> {}, channel |-> channel,
                 messageID |-> messageID, created |-> 0, gate |-> skip]
        run == IF nameFormat /\ st # Nil
               THEN maybeUpdateChannelName(st, renameOK) ELSE skip
    IN IF session = "nil"
       THEN base
       ELSE IF ~(editOK /\ HasMessage(channel, messageID))
       THEN [base EXCEPT !.edits = {messageID}, !.gate = run]
       ELSE [base EXCEPT !.err = FALSE, !.edits = {messageID},
                         !.channel = EditMessage(channel, messageID, embedKind(st)),
                         !.gate = run]

\* UpdateStatus
UpdateStatus(st, editOK, renameOK) ==
    LET skip == [lastUserCount |-> lastUserCount,
                 lastChannelRename |-> lastChannelRename,
                 channelName |-> channelName, renameCalls |-> 0,
                 outcome |-> "none"]
        base == [err |-> TRUE, edits |-> {}, channel |-> channel,
                 messageID |-> messageID, created |-> 0, gate |-> skip]
    IN IF session = "nil"
       THEN base
       ELSE IF ~(editOK /\ HasMessage(channel, messageID))
       THEN [base EXCEPT !.edits = {messageID}]
       ELSE [base EXCEPT !.err = FALSE, !.edits = {messageID},
                         !.channel = EditMessage(channel, messageID, embedKind(st)),
                         !.gate = IF nameFormat /\ st # Nil
                                  THEN maybeUpdateChannelName(st, renameOK)
                                  ELSE skip]

\* ------------------------------------------------------------------ Init
\* NewService of the three packages: nothing connected, zero-valued fields,
\* done open; the Discord channel holds any short history.
Callers == {"a", "b", "c"}

InitFields(histories) ==
    /\ mu = "free"
    /\ callers = [c \in Callers |-> [pc |-> "idle", op |-> "none", st |-> Nil,
                                      result |-> "none", during |-> {}]]
    /\ renameLog = <<>>
    /\ loopPC = "none"
    /\ done = FALSE
    /\ wg = 0
    /\ cancelled = FALSE
    /\ tickPending = FALSE
    /\ state = Nil
    /\ startResult = "none"
    /\ stopResult = "none"
    /\ lastUpdate = "none"
    /\ client = "nil"
    /\ session = "nil"
    /\ messageID = NoMessage
    /\ lastUserCount = 0
    /\ lastChannelRename = ZeroTime
    /\ nameFormat \in BOOLEAN
    /\ channel \in histories
    /\ channelName = <<[lit |-> "voice-status"]>>
    /\ now = 0
    /\ lifecycle = <<>>
    /\ calls = <<>>
    /\ creates = 0
    /\ editTargets = {}
    /\ gate = "none"
    /\ tickerSyncs = 0
    /\ initialSyncs = 0

\* ---------------------------------------------------------- configuration
\* a key of the YAML document: absent, or present with a value
Unset == [set |-> FALSE]
Value(d) == [set |-> TRUE, value |-> d]

NilConfig == [nil |-> TRUE]             \* a nil *Config
DefaultInterval == 30 * Second          \* UpdateInterval: 30 * time.Second
MinInterval == 5 * Second               \* 5*time.Second
IntervalError == "display.update_interval must be at least 5s"

\* yaml.Unmarshal over the defaults of Load: a key of the document replaces
\* the default, an absent key leaves it
Unmarshal(file) ==
    [Host |-> file.host, Password |-> file.password, Token |-> file.token,
     ChannelID |-> file.channel_id,
     UpdateInterval |-> IF file.update_interval.set
                        THEN file.update_interval.value ELSE DefaultInterval]

\* Config.Validate: the error message, or "nil"
Validate_AtMost(c) ==
    IF c.Host = "" THEN "teamspeak.host is required"
    ELSE IF c.Password = "" THEN "teamspeak.password is required"
    ELSE IF c.Token = "" THEN "discord.token is required"
    ELSE IF c.ChannelID = "" THEN "discord.channel_id is required"
    ELSE IF c.UpdateInterval <= MinInterval THEN IntervalError
    ELSE "nil"

Validate(c) ==
    IF c.Host = "" THEN "teamspeak.host is required"
    ELSE IF c.Password = "" THEN "teamspeak.password is required"
    ELSE IF c.Token = "" THEN "discord.token is required"
    ELSE IF c.ChannelID = "" THEN "discord.channel_id is required"
    ELSE IF c.UpdateInterval < MinInterval THEN IntervalError
    ELSE "nil"

\* config.Load: cfg and err
Load(file, readOK, parseOK) ==
    IF ~readOK THEN [cfg |-> NilConfig, err |-> "failed to read config file"]
    ELSE IF ~parseOK THEN [cfg |-> NilConfig, err |-> "failed to parse config file"]
    ELSE IF Validate(Unmarshal(file)) # "nil"
         THEN [cfg |-> NilConfig, err |-> Validate(Unmarshal(file))]
    ELSE [cfg |-> Unmarshal(file), err |-> "nil"]

\* bridge.NewService from the loaded configuration (main.go run)
NewBridgeConfig(cfg) == [UpdateInterval |-> cfg.UpdateInterval]

\* a document with the required keys and no update_interval
DefaultFile ==
    [host |-> "ts.example", password |-> "pw", token |-> "tok",
     channel_id |-> "chan", update_interval |-> Unset]

\* run() has loaded DefaultFile and built the bridge from it
InitService(histories) ==
    /\ mainPC = "new"
    /\ configFile = DefaultFile
    /\ loaded = Load(DefaultFile, TRUE, TRUE)
    /\ bridgeCfg = NewBridgeConfig(loaded.cfg)
    /\ InitFields(histories)

\* the data path at rest: nothing queried, nothing built
InitData ==
    /\ tsChannels = <<>>
    /\ tsClients = <<>>
    /\ snapshot = Nil
    /\ display = [ShowEmptyChannels |-> FALSE, ThumbnailURL |-> "",
                  ServerAddress |-> "", ServerPassword |-> "", CustomFooter |-> "",
                  ChannelNameFormat |-> IF nameFormat THEN DefaultFormat ELSE <<>>]
    /\ lastEmbed = Nil
    /\ prevEmbed = Nil

InitWith(histories) == InitService(histories) /\ InitData

Init == InitWith(Histories(MaxMsgs))

\* ------------------------------------------------- bridge Start (caller)
\* s.teamspeak.Start(ctx); on error Start returns it
StartTeamspeak ==
    /\ mainPC = "new"
    /\ \E outcome \in TSStartOutcomes :
         LET r == teamspeakStart(outcome)
         IN /\ client' = r.client
            /\ lifecycle' = lifecycle \o
                 (IF r.err THEN <<"ts.Start", "return err">> ELSE <<"ts.Start">>)
            /\ mainPC' = IF r.err THEN "failed" ELSE "start_discord"
            /\ startResult' = IF r.err THEN "err" ELSE startResult
    /\ UNCHANGED <<dataVars, configVars, lockVars>>
    /\ UNCHANGED <<loopPC, done, wg, cancelled, tickPending, state, stopResult,
                   lastUpdate, discordVars, remoteVars, now, calls, creates,
                   editTargets, gate, tickerSyncs, initialSyncs>>

\* StartDiscord that launches the loop goroutine before the initial update
StartDiscord_LaunchEarly ==
    /\ mainPC = "start_discord"
    /\ \E fp \in DiscordFailPoints :
         LET r == discordStart(fp)
         IN /\ session' = r.session
            /\ messageID' = r.messageID
            /\ channel' = r.channel
            /\ creates' = creates + r.created
            /\ client' = IF r.err THEN teamspeakStop.client ELSE client
            /\ lifecycle' = lifecycle \o
                 (IF r.err THEN <<"dc.Start", "ts.Stop", "return err">>
                  ELSE <<"dc.Start", "go loop">>)
            /\ mainPC' = IF r.err THEN "failed" ELSE "initial_update"
            /\ startResult' = IF r.err THEN "err" ELSE startResult
            /\ loopPC' = IF r.err THEN loopPC ELSE "select"
            /\ wg' = IF r.err THEN wg ELSE wg + 1
    /\ UNCHANGED <<dataVars, configVars, lockVars>>
    /\ UNCHANGED <<done, cancelled, tickPending, state, stopResult,
                   lastUpdate, lastUserCount, lastChannelRename, nameFormat,
                   channelName, now, calls, editTargets, gate, tickerSyncs,
                   initialSyncs>>

\* StartDiscord that returns the error without stopping the teamspeak service
StartDiscord_NoTeardown ==
    /\ mainPC = "start_discord"
    /\ \E fp \in DiscordFailPoints :
         LET r == discordStart(fp)
         IN /\ session' = r.session
            /\ messageID' = r.messageID
            /\ channel' = r.channel
            /\ creates' = creates + r.created
            /\ client' = client
            /\ lifecycle' = lifecycle \o
                 (IF r.err THEN <<"dc.Start", "return err">> ELSE <<"dc.Start">>)
            /\ mainPC' = IF r.err THEN "failed" ELSE "initial_update"
            /\ startResult' = IF r.err THEN "err" ELSE startResult
    /\ UNCHANGED <<dataVars, configVars, lockVars>>
    /\ UNCHANGED <<loopPC, done, wg, cancelled, tickPending, state, stopResult,
                   lastUpdate, lastUserCount, lastChannelRename, nameFormat,
                   channelName, now, calls, editTargets, gate, tickerSyncs,
                   initialSyncs>>

\* s.discord.Start(ctx); on error the teamspeak service is stopped and Start
\* returns the error
StartDiscord ==
    /\ mainPC = "start_discord"
    /\ \E fp \in DiscordFailPoints :
         LET r == discordStart(fp)
         IN /\ session' = r.session
            /\ messageID' = r.messageID
            /\ channel' = r.channel
            /\ creates' = creates + r.created
            /\ client' = IF r.err THEN teamspeakStop.client ELSE client
            /\ lifecycle' = lifecycle \o
                 (IF r.err THEN <<"dc.Start", "ts.Stop", "return err">>
                  ELSE <<"dc.Start">>)
            /\ mainPC' = IF r.err THEN "failed" ELSE "initial_update"
            /\ startResult' = IF r.err THEN "err" ELSE startResult
    /\ UNCHANGED <<dataVars, configVars, lockVars>>
    /\ UNCHANGED <<loopPC, done, wg, cancelled, tickPending, state, stopResult,
                   lastUpdate, lastUserCount, lastChannelRename, nameFormat,
                   channelName, now, calls, editTargets, gate, tickerSyncs, initialSyncs>>

\* Fetch that hands the nil state to UpdateStatus when GetState fails
Fetch_ApplyOnError(pc, pcApply, pcNext) ==
    \E fetchOK \in BOOLEAN, snap \in Snapshots :
       LET r == GetState(fetchOK, snap)
       IN /\ calls' = <<"GetState">>
          /\ state' = r.state
          /\ lastUpdate' = IF r.err THEN "fetch_err" ELSE lastUpdate
          /\ pc' = pcApply

\* update(): s.teamspeak.GetState(ctx); pcNext is where the caller continues
\* when update returns, pcApply where update goes on to UpdateStatus
Fetch(pc, pcApply, pcNext) ==
    \E fetchOK \in BOOLEAN, snap \in Snapshots :
       LET r == GetState(fetchOK, snap)
       IN /\ calls' = <<"GetState">>
          /\ state' = r.state
          /\ lastUpdate' = IF r.err THEN "fetch_err" ELSE lastUpdate
          /\ pc' = IF r.err THEN pcNext ELSE pcApply

\* update(): s.discord.UpdateStatus(ctx, state) and return
Apply(pc, pcNext) ==
    \E editOK \in BOOLEAN, renameOK \in BOOLEAN :
       LET r == UpdateStatus(state, editOK, renameOK)
       IN /\ calls' = calls \o <<"UpdateStatus">>
                      \o (IF r.edits = {} THEN <<>> ELSE <<"ChannelMessageEditEmbed">>)
                      \o (IF r.gate.outcome = "none" THEN <<>>
                          ELSE <<"maybeUpdateChannelName">>)
                      \o (IF r.gate.renameCalls = 1 THEN <<"ChannelEdit">> ELSE <<>>)
          /\ editTargets' = editTargets \cup r.edits
          /\ channel' = r.channel
          /\ channelName' = r.gate.channelName
          /\ lastUserCount' = r.gate.lastUserCount
          /\ lastChannelRename' = r.gate.lastChannelRename
          /\ gate' = IF r.gate.outcome = "none" THEN gate ELSE r.gate.outcome
          /\ messageID' = r.messageID
          /\ creates' = creates + r.created
          /\ lastUpdate' = IF r.err THEN "apply_err" ELSE "nil"
          /\ state' = Nil
          /\ pc' = pcNext

\* InitialFetch where a failed fetch makes Start return the error
InitialFetch_Fatal ==
    /\ mainPC = "initial_update"
    /\ \E fetchOK \in BOOLEAN, snap \in Snapshots :
          LET r == GetState(fetchOK, snap)
          IN /\ calls' = <<"GetState">>
             /\ state' = r.state
             /\ lastUpdate' = IF r.err THEN "fetch_err" ELSE lastUpdate
             /\ mainPC' = IF r.err THEN "failed" ELSE "initial_apply"
             /\ startResult' = IF r.err THEN "err" ELSE startResult
             /\ lifecycle' = lifecycle \o
                  (IF r.err THEN <<"update", "return err">> ELSE <<"update">>)
    /\ initialSyncs' = initialSyncs + 1
    /\ UNCHANGED <<dataVars, configVars, lockVars>>
    /\ UNCHANGED <<loopPC, done, wg, cancelled, tickPending, stopResult,
                   client, discordVars, remoteVars, now, creates, editTargets,
                   gate, tickerSyncs>>

\* the initial update of Start: fetch
InitialFetch ==
    /\ mainPC = "initial_update"
    /\ Fetch(mainPC, "initial_apply", "launch")
    /\ initialSyncs' = initialSyncs + 1
    /\ lifecycle' = lifecycle \o <<"update">>
    /\ UNCHANGED <<dataVars, configVars, lockVars>>
    /\ UNCHANGED <<loopPC, done, wg, cancelled, tickPending, startResult,
                   stopResult, client, discordVars, remoteVars, now, creates,
                   editTargets, gate, tickerSyncs>>

\* the initial update of Start: apply
InitialApply ==
    /\ mainPC = "initial_apply"
    /\ Apply(mainPC, "launch")
    /\ UNCHANGED <<dataVars, configVars, lockVars>>
    /\ UNCHANGED <<loopPC, done, wg, cancelled, tickPending, startResult,
                   stopResult, client, session, nameFormat, now, lifecycle,
                   tickerSyncs, initialSyncs>>

\* s.wg.Add(1); go s.loop(ctx); return nil
LaunchLoop ==
    /\ mainPC = "launch"
    /\ wg' = wg + 1
    /\ loopPC' = "select"
    /\ lifecycle' = lifecycle \o <<"go loop", "return nil">>
    /\ startResult' = "nil"
    /\ mainPC' = "running"
    /\ UNCHANGED <<dataVars, configVars, lockVars>>
    /\ UNCHANGED <<done, cancelled, tickPending, state, stopResult, lastUpdate,
                   client, discordVars, remoteVars, now, calls, creates,
                   editTargets, gate, tickerSyncs, initialSyncs>>


\* ------------------------------------------------------- loop goroutine
\* the ticker delivers a tick into ticker.C (capacity 1; a tick that finds
\* the buffer full is dropped)
TickerFire ==
    /\ loopPC \in {"select", "fetch", "apply"}
    /\ ~tickPending
    /\ tickerSyncs < MaxTicks
    /\ tickPending' = TRUE
    /\ UNCHANGED <<dataVars, configVars, lockVars>>
    /\ UNCHANGED <<mainPC, loopPC, done, wg, cancelled, state, startResult,
                   stopResult, lastUpdate, client, discordVars, remoteVars, now,
                   lifecycle, calls, creates, editTargets, gate, tickerSyncs,
                   initialSyncs>>

\* defer ticker.Stop(); defer s.wg.Done()
LoopReturn ==
    /\ loopPC' = "exited"
    /\ wg' = wg - 1
    /\ lifecycle' = lifecycle \o <<"loop return">>
    /\ UNCHANGED <<dataVars, configVars, lockVars>>
    /\ UNCHANGED <<mainPC, done, cancelled, tickPending, state, startResult,
                   stopResult, lastUpdate, client, discordVars, remoteVars, now,
                   calls, creates, editTargets, gate, tickerSyncs,
                   initialSyncs>>

\* LoopDone that goes on selecting instead of returning
LoopDone_Ignored ==
    /\ loopPC = "select"
    /\ done
    /\ UNCHANGED vars

\* select: case <-s.done
LoopDone ==
    /\ loopPC = "select"
    /\ done
    /\ LoopReturn

\* select: case <-ctx.Done()
LoopCtxDone ==
    /\ loopPC = "select"
    /\ cancelled
    /\ LoopReturn

\* select: case <-ticker.C, entering s.update(ctx)
LoopTick ==
    /\ loopPC = "select"
    /\ tickPending
    /\ tickPending' = FALSE
    /\ loopPC' = "fetch"
    /\ tickerSyncs' = tickerSyncs + 1
    /\ UNCHANGED <<dataVars, configVars, lockVars>>
    /\ UNCHANGED <<mainPC, done, wg, cancelled, state, startResult, stopResult,
                   lastUpdate, client, discordVars, remoteVars, now, lifecycle,
                   calls, creates, editTargets, gate, initialSyncs>>

\* LoopFetch where a failed fetch makes the loop return
LoopFetch_ExitOnError ==
    /\ loopPC = "fetch"
    /\ \E fetchOK \in BOOLEAN, snap \in Snapshots :
          LET r == GetState(fetchOK, snap)
          IN /\ calls' = <<"GetState">>
             /\ state' = r.state
             /\ lastUpdate' = IF r.err THEN "fetch_err" ELSE lastUpdate
             /\ loopPC' = IF r.err THEN "exited" ELSE "apply"
             /\ wg' = IF r.err THEN wg - 1 ELSE wg
             /\ lifecycle' = lifecycle \o
                  (IF r.err THEN <<"loop return">> ELSE <<>>)
    /\ UNCHANGED <<dataVars, configVars, lockVars>>
    /\ UNCHANGED <<mainPC, done, cancelled, tickPending, startResult,
                   stopResult, client, discordVars, remoteVars, now, creates,
                   editTargets, gate, tickerSyncs, initialSyncs>>

\* update() of a tick: fetch; an error is logged and the loop selects again
LoopFetch ==
    /\ loopPC = "fetch"
    /\ Fetch(loopPC, "apply", "select")
    /\ UNCHANGED <<dataVars, configVars, lockVars>>
    /\ UNCHANGED <<mainPC, done, wg, cancelled, tickPending, startResult,
                   stopResult, client, discordVars, remoteVars, now, lifecycle,
                   creates, editTargets, gate, tickerSyncs, initialSyncs>>

\* update() of a tick: apply; an error is logged and the loop selects again
LoopApply ==
    /\ loopPC = "apply"
    /\ Apply(loopPC, "select")
    /\ UNCHANGED <<dataVars, configVars, lockVars>>
    /\ UNCHANGED <<mainPC, done, wg, cancelled, tickPending, startResult,
                   stopResult, client, session, nameFormat, now, lifecycle,
                   tickerSyncs, initialSyncs>>

\* -------------------------------------------------- bridge Stop (caller)
\* close(s.done), then block in s.wg.Wait()
StopSignal ==
    /\ mainPC = "running"
    /\ done' = TRUE
    /\ lifecycle' = lifecycle \o <<"close done">>
    /\ mainPC' = "stop_wait"
    /\ UNCHANGED <<dataVars, configVars, lockVars>>
    /\ UNCHANGED <<loopPC, wg, cancelled, tickPending, state, startResult,
                   stopResult, lastUpdate, client, discordVars, remoteVars, now,
                   calls, creates, editTargets, gate, tickerSyncs,
                   initialSyncs>>

\* StopWait that does not wait for the loop goroutine
StopWait_NoWait ==
    /\ mainPC = "stop_wait"
    /\ mainPC' = "stop_discord"
    /\ UNCHANGED <<dataVars, configVars, lockVars>>
    /\ UNCHANGED <<loopPC, done, wg, cancelled, tickPending, state, startResult,
                   stopResult, lastUpdate, client, discordVars, remoteVars, now,
                   lifecycle, calls, creates, editTargets, gate, tickerSyncs,
                   initialSyncs>>

\* s.wg.Wait() returns once the counter is zero
StopWait ==
    /\ mainPC = "stop_wait"
    /\ wg = 0
    /\ mainPC' = "stop_discord"
    /\ UNCHANGED <<dataVars, configVars, lockVars>>
    /\ UNCHANGED <<loopPC, done, wg, cancelled, tickPending, state, startResult,
                   stopResult, lastUpdate, client, discordVars, remoteVars, now,
                   lifecycle, calls, creates, editTargets, gate, tickerSyncs, initialSyncs>>

\* s.discord.Stop(); an error would only be logged
StopDiscord ==
    /\ mainPC = "stop_discord"
    /\ session' = discordStop.session
    /\ lifecycle' = lifecycle \o <<"dc.Stop">>
    /\ mainPC' = "stop_teamspeak"
    /\ UNCHANGED <<dataVars, configVars, lockVars>>
    /\ UNCHANGED <<loopPC, done, wg, cancelled, tickPending, state, startResult,
                   stopResult, lastUpdate, client, messageID, lastUserCount,
                   lastChannelRename, nameFormat, remoteVars, now, calls,
                   creates, editTargets, gate, tickerSyncs, initialSyncs>>

\* s.teamspeak.Stop(); an error would only be logged; return nil
StopTeamspeak ==
    /\ mainPC = "stop_teamspeak"
    /\ client' = teamspeakStop.client
    /\ lifecycle' = lifecycle \o <<"ts.Stop", "stop return nil">>
    /\ stopResult' = "nil"
    /\ mainPC' = "stopped"
    /\ UNCHANGED <<dataVars, configVars, lockVars>>
    /\ UNCHANGED <<loopPC, done, wg, cancelled, tickPending, state, startResult,
                   lastUpdate, discordVars, remoteVars, now, calls, creates,
                   editTargets, gate, tickerSyncs, initialSyncs>>

\* ------------------------------------------------------------ environment
\* the signal handler of run() cancels the context
Cancel ==
    /\ ~cancelled
    /\ mainPC \notin {"failed", "stopped"}
    /\ cancelled' = TRUE
    /\ UNCHANGED <<dataVars, configVars, lockVars>>
    /\ UNCHANGED <<mainPC, loopPC, done, wg, tickPending, state, startResult,
                   stopResult, lastUpdate, client, discordVars, remoteVars, now,
                   lifecycle, calls, creates, editTargets, gate, tickerSyncs, initialSyncs>>

\* a minute passes
AdvanceTime ==
    /\ now < MaxTime
    /\ mainPC \notin {"failed", "stopped"}
    /\ now' = now + 1
    /\ UNCHANGED <<dataVars, configVars, lockVars>>
    /\ UNCHANGED <<bridgeVars, client, discordVars, remoteVars, obsVars>>

Next ==
    \/ StartTeamspeak
    \/ StartDiscord
    \/ InitialFetch
    \/ InitialApply
    \/ LaunchLoop
    \/ TickerFire
    \/ LoopDone
    \/ LoopCtxDone
    \/ LoopTick
    \/ LoopFetch
    \/ LoopApply
    \/ StopSignal
    \/ StopWait
    \/ StopDiscord
    \/ StopTeamspeak
    \/ Cancel
    \/ AdvanceTime

Spec == Init /\ [][Next]_vars


\* The same program under the scheduling the claims on termination assume:
\* a goroutine that can take a step takes it (a remote call in flight
\* returns, wg.Wait returns once the counter is zero), and a select case that
\* is ready again and again is chosen at some point (the choice among ready
\* cases is uniformly random).
Fairness ==
    /\ WF_vars(LoopFetch)
    /\ WF_vars(LoopApply)
    /\ SF_vars(LoopDone)
    /\ SF_vars(LoopCtxDone)
    /\ WF_vars(StopWait)
    /\ WF_vars(StopDiscord)
    /\ WF_vars(StopTeamspeak)

\* termination does not depend on what the channel held: it starts empty
InitLive == InitWith(Histories(0))

SpecLive == InitLive /\ [][Next]_vars /\ Fairness

\* ----------------------------------------------- Start alone, long history
InitDiscovery == InitWith(Histories(MaxHistory))

NextDiscovery == StartTeamspeak \/ StartDiscord

SpecDiscovery == InitDiscovery /\ [][NextDiscovery]_vars

\* ================================================================ claims
Range(f) == {f[i] : i \in DOMAIN f}

\* the listing findOrCreateMessage received: the channel without the message
\* it created itself
Listed == IF creates = 0 THEN channel ELSE Tail(channel)

IsOwnStatus(m) == m.Author = BotID /\ Len(m.Embeds) > 0

\* the discord service's Start has returned
SinkStartReturned == mainPC \notin {"new", "start_discord"}

\* C1: the sink creates at most one message, every edit of UpdateStatus
\* targets the message id recorded during Start, and that id never changes
\* once Start has returned.
C1_SingleArtifact ==
    /\ [](/\ creates <= 1
          /\ Len(channel) <= MaxMsgs + 1
          /\ editTargets \subseteq {messageID}
          /\ (editTargets # {} => messageID # NoMessage))
    /\ [][SinkStartReturned => messageID' = messageID]_vars

C1_Witness ==
    /\ mainPC = "stopped"
    /\ creates = 1
    /\ editTargets = {messageID}
    /\ tickerSyncs = MaxTicks
    /\ lastUpdate = "apply_err"

\* C2: when the listing holds an own message with an embed, the most recent
\* such message is adopted and nothing is created; a message of another
\* author or an own message without embed is never adopted.
C2_AdoptMostRecentOwn ==
    session = "open" =>
      /\ (\E i \in 1..Len(Listed) : IsOwnStatus(Listed[i])) =>
            /\ creates = 0
            /\ \E i \in 1..Len(Listed) :
                  /\ IsOwnStatus(Listed[i])
                  /\ messageID = Listed[i].ID
                  /\ \A j \in 1..(i - 1) : ~IsOwnStatus(Listed[j])
      /\ \A i \in 1..Len(Listed) :
            messageID = Listed[i].ID => IsOwnStatus(Listed[i])

C2_Witness ==
    /\ session = "open"
    /\ creates = 0
    /\ Len(channel) = 3
    /\ ~IsOwnStatus(channel[1])
    /\ IsOwnStatus(channel[2])
    /\ IsOwnStatus(channel[3])
    /\ messageID = channel[2].ID

\* C3: when no listed message is an own message with an embed, exactly one
\* message is created, carrying the "connecting" placeholder, and its id is
\* recorded; when listing or creation fails, Start fails and no id is
\* recorded.
C3_CreatePlaceholder ==
    /\ (session = "open" /\ \A i \in 1..Len(Listed) : ~IsOwnStatus(Listed[i])) =>
          /\ creates = 1
          /\ channel[1] = [ID |-> messageID, Author |-> BotID,
                           Embeds |-> <<[kind |-> "connecting"]>>]
          /\ messageID # NoMessage
          /\ \A i \in 1..Len(Listed) : Listed[i].ID # messageID
    /\ session = "closed" =>
          /\ startResult = "err"
          /\ messageID = NoMessage
          /\ creates = 0

C3_Witness ==
    /\ session = "open"
    /\ creates = 1
    /\ Len(channel) = 3
    /\ channel[2].Author = BotID
    /\ channel[3].Author = OtherID
    /\ Len(channel[3].Embeds) > 0


\* an update() is about to call UpdateStatus with the snapshot in state
Applying == mainPC = "initial_apply" \/ loopPC = "apply"

\* the step is an UpdateStatus that ran maybeUpdateChannelName
GateStep == Applying /\ calls' # calls /\ "maybeUpdateChannelName" \in Range(calls')

RenameStateUnchanged ==
    /\ lastUserCount' = lastUserCount
    /\ lastChannelRename' = lastChannelRename
    /\ channelName' = channelName

\* C4: when the snapshot's count equals the recorded count, no rename call is
\* issued and the recorded count and timestamp stay as they are, whatever the
\* elapsed time and the other fields of the snapshot.
C4_UnchangedCountSkips ==
    [][(Applying /\ state.TotalUsers = lastUserCount) =>
          /\ RenameStateUnchanged
          /\ "ChannelEdit" \notin Range(calls')]_vars

C4_Witness ==
    /\ gate = "unchanged"
    /\ lastUserCount > 0
    /\ lastChannelRename # ZeroTime
    /\ Since(lastChannelRename) >= Cooldown
    /\ [num |-> MaxUsers + 1] \in Range(channelName)
    /\ calls = <<"GetState", "UpdateStatus", "ChannelMessageEditEmbed",
                 "maybeUpdateChannelName">>

\* C5: when the snapshot's count differs from the recorded count, the rename
\* call is issued exactly when at least five minutes have passed since the
\* recorded timestamp; below five minutes nothing is called and the recorded
\* count and timestamp stay as they are.
C5_CooldownGate ==
    [][(GateStep /\ state.TotalUsers # lastUserCount) =>
          /\ ("ChannelEdit" \in Range(calls')) <=> (now - lastChannelRename >= Cooldown)
          /\ (now - lastChannelRename < Cooldown) =>
                (RenameStateUnchanged /\ gate' = "cooldown")]_vars

C5_Witness ==
    /\ gate = "cooldown"
    /\ now - lastChannelRename = Cooldown - 1
    /\ calls = <<"GetState", "UpdateStatus", "ChannelMessageEditEmbed",
                 "maybeUpdateChannelName">>

\* C6: a successful rename records the snapshot's count and the current time;
\* a failed rename leaves the recorded count and timestamp as they are and
\* UpdateStatus still returns nil, and the next run of the gate with a count
\* that still differs issues the rename call again.
C6_RenameOutcome ==
    [][/\ (GateStep /\ gate' = "renamed") =>
            /\ "ChannelEdit" \in Range(calls')
            /\ lastUserCount' = state.TotalUsers
            /\ lastChannelRename' = now
            /\ lastUpdate' = "nil"
       /\ (GateStep /\ gate' = "failed") =>
            /\ "ChannelEdit" \in Range(calls')
            /\ RenameStateUnchanged
            /\ lastUpdate' = "nil"
       /\ (GateStep /\ gate = "failed" /\ state.TotalUsers # lastUserCount) =>
            "ChannelEdit" \in Range(calls')]_vars

C6_Witness ==
    /\ gate = "failed"
    /\ lastUpdate = "nil"
    /\ tickerSyncs = MaxTicks
    /\ loopPC = "select"
    /\ lastChannelRename # ZeroTime
    /\ calls = <<"GetState", "UpdateStatus", "ChannelMessageEditEmbed",
                 "maybeUpdateChannelName", "ChannelEdit">>


Count(seq, x) == Cardinality({i \in DOMAIN seq : seq[i] = x})

\* C7: the source is started before the sink; when the source fails the sink
\* is never started; when the sink fails the source is stopped before Start
\* returns the error; in both cases nothing is synchronized and the loop is
\* never launched.
C7_StartSequencing ==
    /\ "dc.Start" \in Range(lifecycle) =>
          (Len(lifecycle) >= 2 /\ lifecycle[1] = "ts.Start" /\ lifecycle[2] = "dc.Start")
    /\ startResult = "err" =>
          /\ lifecycle \in {<<"ts.Start", "return err">>,
                            <<"ts.Start", "dc.Start", "ts.Stop", "return err">>}
          /\ client = "nil"
          /\ ("dc.Start" \notin Range(lifecycle) => session = "nil" /\ creates = 0)
          /\ initialSyncs = 0
          /\ tickerSyncs = 0
          /\ calls = <<>>
          /\ editTargets = {}
          /\ loopPC = "none"
          /\ wg = 0

C7_Witness ==
    /\ startResult = "err"
    /\ lifecycle = <<"ts.Start", "dc.Start", "ts.Stop", "return err">>
    /\ session = "closed"
    /\ client = "nil"

\* C8: once both collaborators started, Start runs exactly one update before
\* the loop is launched and before any update of the loop; a failure of that
\* update neither makes Start return an error nor keeps the loop from being
\* launched.
C8_InitialSync ==
    /\ [](/\ initialSyncs <= 1
          /\ (loopPC # "none" \/ tickerSyncs > 0 \/ mainPC = "launch") => initialSyncs = 1
          /\ loopPC # "none" =>
                /\ startResult = "nil"
                /\ SubSeq(lifecycle, 1, 5) =
                      <<"ts.Start", "dc.Start", "update", "go loop", "return nil">>
          /\ initialSyncs = 1 => startResult # "err"
          /\ mainPC \in {"initial_update", "initial_apply", "launch"} =>
                (loopPC = "none" /\ tickerSyncs = 0 /\ startResult = "none"))
    /\ [][(mainPC \in {"initial_update", "initial_apply"} /\ mainPC' # mainPC) =>
             mainPC' \in {"initial_apply", "launch"}]_vars
    /\ [][(mainPC = "launch" /\ mainPC' # mainPC) =>
             (mainPC' = "running" /\ loopPC' = "select" /\ startResult' = "nil")]_vars

C8_Witness ==
    /\ loopPC = "select"
    /\ startResult = "nil"
    /\ initialSyncs = 1
    /\ tickerSyncs = 0
    /\ lastUpdate = "fetch_err"

\* C9: a tick makes one synchronization attempt: one GetState, and one
\* UpdateStatus only when GetState succeeded; a failed attempt returns the
\* loop to its select, a new attempt begins only by taking a tick, and the
\* loop returns only when stopped or cancelled.
C9_OneAttemptPerTick ==
    /\ [](/\ Count(calls, "GetState") <= 1
          /\ Count(calls, "UpdateStatus") <= 1
          /\ loopPC = "apply" => (calls = <<"GetState">> /\ state # Nil)
          /\ loopPC = "exited" => (done \/ cancelled)
          /\ (loopPC = "select" /\ tickPending) => ENABLED LoopTick)
    /\ [][(loopPC = "select" /\ loopPC' # "select") =>
             \/ /\ loopPC' = "fetch"
                /\ tickPending /\ ~tickPending'
                /\ tickerSyncs' = tickerSyncs + 1
             \/ loopPC' = "exited" /\ (done \/ cancelled)]_vars
    /\ [][(loopPC = "fetch" /\ loopPC' # "fetch") =>
             /\ calls' = <<"GetState">>
             /\ \/ loopPC' = "apply" /\ state' # Nil
                \/ loopPC' = "select" /\ state' = Nil /\ lastUpdate' = "fetch_err"]_vars
    /\ [][(loopPC = "apply" /\ loopPC' # "apply") =>
             /\ loopPC' = "select"
             /\ Count(calls', "GetState") = 1
             /\ Count(calls', "UpdateStatus") = 1
             /\ lastUpdate' \in {"nil", "apply_err"}]_vars
    /\ [][tickerSyncs' # tickerSyncs => (loopPC = "select" /\ loopPC' = "fetch")]_vars

C9_Witness ==
    /\ loopPC = "fetch"
    /\ tickerSyncs = 2
    /\ lastUpdate = "apply_err"
    /\ ~done
    /\ ~cancelled

\* C10: Stop after a successful Start closes done, stops no collaborator
\* before the loop goroutine has returned (no update is in flight any more),
\* stops the sink before the source, and returns nil.
C10_StopOrder ==
    /\ [](/\ mainPC \in {"stop_discord", "stop_teamspeak", "stopped"} =>
                (done /\ loopPC = "exited" /\ wg = 0 /\ state = Nil)
          /\ mainPC = "stop_wait" => (done /\ session = "open" /\ client = "open")
          /\ mainPC = "stop_teamspeak" => (session = "nil" /\ client = "open")
          /\ mainPC = "stopped" =>
                /\ stopResult = "nil"
                /\ session = "nil"
                /\ client = "nil"
                /\ SubSeq(lifecycle, Len(lifecycle) - 2, Len(lifecycle)) =
                      <<"dc.Stop", "ts.Stop", "stop return nil">>)
    /\ [][(startResult = "nil" /\ session' # session) =>
             (loopPC = "exited" /\ client = "open" /\ session' = "nil")]_vars
    /\ [][(startResult = "nil" /\ client' # client) =>
             (loopPC = "exited" /\ session = "nil" /\ client' = "nil")]_vars

C10_Witness ==
    /\ mainPC = "stopped"
    /\ stopResult = "nil"
    /\ ~cancelled
    /\ tickerSyncs = MaxTicks
    /\ "loop return" \in Range(lifecycle)


\* C11: once done is closed or the context is cancelled, the loop begins no
\* further update, also when a tick is buffered at that moment.
C11_NoSyncAfterStop ==
    [][(done \/ cancelled) => tickerSyncs' = tickerSyncs]_vars


LoopRunning == loopPC \in {"select", "fetch", "apply"}

\* C12: when done is closed or the context is cancelled, and every call in
\* flight returns, the loop goroutine returns and a Stop that is waiting
\* returns.
C12_LoopTerminates ==
    /\ ((done \/ cancelled) /\ LoopRunning) ~> (loopPC = "exited")
    /\ (mainPC = "stop_wait") ~> (mainPC = "stopped" /\ stopResult = "nil")

C12_Witness ==
    /\ loopPC = "exited"
    /\ mainPC = "stopped"
    /\ stopResult = "nil"
    /\ cancelled
    /\ tickerSyncs = 1
    /\ lifecycle[Len(lifecycle) - 3] = "loop return"


\* number of update() calls that are executing
InFlight ==
    (IF mainPC = "initial_apply" THEN 1 ELSE 0)
    + (IF loopPC \in {"fetch", "apply"} THEN 1 ELSE 0)

\* C13: at most one update() is executing at any time, the one of Start or
\* one of the loop, and an update begins only when none is executing.
C13_SequentialTicks ==
    /\ [](/\ InFlight <= 1
          /\ loopPC \in {"fetch", "apply"} => mainPC \in {"running", "stop_wait"}
          /\ mainPC \in {"initial_update", "initial_apply"} => loopPC = "none")
    /\ [][(initialSyncs' # initialSyncs \/ tickerSyncs' # tickerSyncs) =>
             /\ InFlight = 0
             /\ (initialSyncs' - initialSyncs) + (tickerSyncs' - tickerSyncs) = 1]_vars

C13_Witness ==
    /\ loopPC = "apply"
    /\ tickerSyncs = 1
    /\ tickPending
    /\ mainPC = "running"
    /\ InFlight = 1

\* C14: when the edit fails in UpdateStatus, update returns an error, no
\* message is created, the recorded message id stays, no rename is attempted
\* and the recorded count and timestamp stay.
C14_EditFailure ==
    [][(Applying /\ calls' # calls /\ "ChannelMessageEditEmbed" \in Range(calls')) =>
          /\ lastUpdate' = "apply_err" =>
               /\ creates' = creates
               /\ messageID' = messageID
               /\ channel' = channel
               /\ RenameStateUnchanged
               /\ gate' = gate
               /\ calls' = <<"GetState", "UpdateStatus", "ChannelMessageEditEmbed">>
          /\ (nameFormat /\ "maybeUpdateChannelName" \notin Range(calls')) =>
               lastUpdate' = "apply_err"]_vars

C14_Witness ==
    /\ lastUpdate = "apply_err"
    /\ nameFormat
    /\ loopPC = "select"
    /\ tickerSyncs = 1
    /\ editTargets = {messageID}
    /\ creates = 1
    /\ gate = "renamed"
    /\ calls = <<"GetState", "UpdateStatus", "ChannelMessageEditEmbed">>


\* ------------------------------------------------------------- projection
\* Texts the code inspects character by character (channel names) are tuples
\* of characters; durations are in milliseconds.
MaxOnline == 10
MaxCapacity == 10
MaxChannels == 2
MaxChanUsers == 2
MaxClock == 2

ColorDefault == 2841476
ColorConnecting == 16426522
ColorEmpty == 9807270
ColorCritical == 15158332
ColorBusy == 15965202
ColorNominal == 3066993

UpperCase == <<"A", "B", "C", "D", "E", "F", "G", "H", "I", "J", "K", "L", "M",
               "N", "O", "P", "Q", "R", "S", "T", "U", "V", "W", "X", "Y", "Z">>
LowerCase == <<"a", "b", "c", "d", "e", "f", "g", "h", "i", "j", "k", "l", "m",
               "n", "o", "p", "q", "r", "s", "t", "u", "v", "w", "x", "y", "z">>

\* strings.ToLower
ToLower(str) ==
    [i \in 1..Len(str) |->
        IF \E k \in 1..26 : UpperCase[k] = str[i]
        THEN LowerCase[CHOOSE k \in 1..26 : UpperCase[k] = str[i]]
        ELSE str[i]]

\* strings.Contains
Contains(str, sub) ==
    \E i \in 0..(Len(str) - Len(sub)) : SubSeq(str, i + 1, i + Len(sub)) = sub

SpacerWord == <<"s", "p", "a", "c", "e", "r">>

\* formatIdleTime that prints all the minutes after the hours
formatIdleTime_TotalMinutes(d) ==
    LET hours == d \div Hour
        minutes == d \div Minute
    IN IF hours > 0
       THEN [hours |-> <<hours>>, minutes |-> minutes]
       ELSE [hours |-> <<>>, minutes |-> minutes]

\* formatIdleTime: "%dh%dm" when hours > 0, else "%dm"
formatIdleTime(d) ==
    LET hours == d \div Hour
        minutes == (d \div Minute) % 60
    IN IF hours > 0
       THEN [hours |-> <<hours>>, minutes |-> minutes]
       ELSE [hours |-> <<>>, minutes |-> minutes]

\* formatDuration: "%dd %dh", "%dh %dm" or "%dm"
formatDuration(d) ==
    LET days == (d \div Hour) \div 24
        hours == (d \div Hour) % 24
        minutes == (d \div Minute) % 60
    IN IF days > 0 THEN [days |-> days, hours |-> hours]
       ELSE IF hours > 0 THEN [hours |-> hours, minutes |-> minutes]
       ELSE [minutes |-> minutes]

\* buildUserStatus: the markers written to the builder, in order
buildUserStatus(user) ==
    (IF user.IsRecording THEN <<[marker |-> "recording"]>> ELSE <<>>)
    \o (IF user.OutputMuted THEN <<[marker |-> "output-muted"]>>
        ELSE IF user.InputMuted THEN <<[marker |-> "input-muted"]>>
        ELSE <<>>)
    \o (IF user.Away THEN <<[marker |-> "away"]>> ELSE <<>>)
    \o (IF user.IdleTime > 5 * Minute
        THEN <<[marker |-> "idle", value |-> formatIdleTime(user.IdleTime)]>>
        ELSE <<>>)

\* UserLines that writes the users last to first
UserLines_Reversed(users) ==
    [i \in 1..Len(users) |->
        [line |-> "user", name |-> users[Len(users) + 1 - i].Nickname,
         status |-> buildUserStatus(users[Len(users) + 1 - i])]]

\* the lines written for the users of a channel
UserLines(users) ==
    [i \in 1..Len(users) |->
        [line |-> "user", name |-> users[i].Nickname,
         status |-> buildUserStatus(users[i])]]

\* the header line of a channel: with the count only when it has users
HeaderLine(ch) ==
    IF Len(ch.Users) > 0
    THEN [line |-> "header", name |-> ch.Name, count |-> <<Len(ch.Users)>>]
    ELSE [line |-> "header", name |-> ch.Name, count |-> <<>>]

BlankLine == [line |-> "blank"]
Placeholder == <<[line |-> "placeholder", text |-> "*No active channels*"]>>

\* Retained that looks for "spacer" without lowering the name
Retained_CaseSensitive(ch) ==
    /\ ~(~display.ShowEmptyChannels /\ Len(ch.Users) = 0)
    /\ ~Contains(ch.Name, SpacerWord)

\* a channel passes the two skips of the loop body
Retained(ch) ==
    /\ ~(~display.ShowEmptyChannels /\ Len(ch.Users) = 0)
    /\ ~Contains(ToLower(ch.Name), SpacerWord)

RECURSIVE ChannelLines(_)
ChannelLines(chs) ==
    IF chs = <<>> THEN <<>>
    ELSE IF Retained(Head(chs))
    THEN <<HeaderLine(Head(chs))>> \o UserLines(Head(chs).Users)
         \o <<BlankLine>> \o ChannelLines(Tail(chs))
    ELSE ChannelLines(Tail(chs))

\* strings.TrimRight(content, "\n") on the lines written
RECURSIVE TrimRight(_)
TrimRight(lines) ==
    IF lines # <<>> /\ lines[Len(lines)] = BlankLine
    THEN TrimRight(SubSeq(lines, 1, Len(lines) - 1))
    ELSE lines

\* buildChannelList
buildChannelList(st) ==
    LET lines == ChannelLines(st.Channels)
    IN IF lines = <<>> THEN Placeholder ELSE TrimRight(lines)

\* float64(u) / float64(c): NaN for 0/0, +Inf for u/0, else the quotient,
\* kept as the pair it was computed from
Quotient(u, c) ==
    IF c = 0
    THEN (IF u = 0 THEN [float |-> "NaN"] ELSE [float |-> "+Inf"])
    ELSE [float |-> "finite", num |-> u, den |-> c]

\* q >= n/d for a float q; every comparison with NaN is false
AtLeast(q, n, d) ==
    CASE q.float = "NaN" -> FALSE
      [] q.float = "+Inf" -> TRUE
      [] OTHER -> q.num * d >= n * q.den

\* time.Now().Format(time.RFC3339) of a clock that counts whole minutes
FormatRFC3339(t) == [hour |-> t \div 60, minute |-> t % 60, second |-> 0]

\* CapacityColor with the cases of the switch tested in the other order
CapacityColor_BusyFirst(st) ==
    LET capacityPercent == Quotient(st.TotalUsers, st.MaxClients)
    IN IF st.TotalUsers = 0 THEN ColorEmpty
       ELSE IF AtLeast(capacityPercent, 5, 10) THEN ColorBusy
       ELSE IF AtLeast(capacityPercent, 8, 10) THEN ColorCritical
       ELSE ColorNominal

\* the switch that picks the colour from the capacity
CapacityColor(st) ==
    LET capacityPercent == Quotient(st.TotalUsers, st.MaxClients)
    IN IF st.TotalUsers = 0 THEN ColorEmpty
       ELSE IF AtLeast(capacityPercent, 8, 10) THEN ColorCritical
       ELSE IF AtLeast(capacityPercent, 5, 10) THEN ColorBusy
       ELSE ColorNominal

\* the fields appended to embed.Fields
EmbedFields(st) ==
    <<[Name |-> "Online", Inline |-> TRUE,
       Value |-> [online |-> st.TotalUsers, max |-> st.MaxClients]],
      [Name |-> "Uptime", Inline |-> TRUE,
       Value |-> formatDuration(st.Uptime)]>>
    \o (IF display.ServerAddress # ""
        THEN <<[Name |-> "Connect", Inline |-> TRUE,
                Value |-> [address |-> display.ServerAddress,
                           pass |-> IF display.ServerPassword # ""
                                    THEN <<display.ServerPassword>> ELSE <<>>]]>>
        ELSE <<>>)
    \o <<[Name |-> "Channels", Inline |-> FALSE,
          Value |-> [lines |-> buildChannelList(st)]]>>

\* buildEmbed, called when the clock shows t
buildEmbed(st, t) ==
    LET base == [Color |-> ColorDefault,
                 Timestamp |-> FormatRFC3339(t),
                 Author |-> "TeamSpeak Server",
                 Title |-> "", Description |-> "", Thumbnail |-> "",
                 Fields |-> <<>>, Footer |-> ""]
    IN IF st = Nil
       THEN [base EXCEPT !.Description = "Connecting to server...",
                         !.Color = ColorConnecting]
       ELSE [base EXCEPT !.Title = st.ServerName,
                         !.Thumbnail = display.ThumbnailURL,
                         !.Color = CapacityColor(st),
                         !.Fields = EmbedFields(st),
                         !.Footer = IF display.CustomFooter # ""
                                    THEN display.CustomFooter
                                    ELSE "Last updated"]

\* ------------------------------------------------- inputs of the projection
Nicknames == <<"alice", "bob", "carol", "dave", "erin">>
NameLobby == <<"L", "o", "b", "b", "y">>
NameGaming == <<"G", "a", "m", "i", "n", "g">>
NameSpacer == <<"*", "s", "p", "a", "c", "e", "r", "*">>
NameCSpacer == <<"[", "c", "S", "P", "A", "C", "E", "R", "]">>
ChannelNames == {NameLobby, NameGaming, NameCSpacer}
ExampleCapacity == 10
ExampleUptime == 26 * Hour + 3 * Minute
IdleTimes == {0, 5 * Minute, 5 * Minute + 1, 70 * Minute}

\* a user with no flag set
PlainUser(i, cid) ==
    [ID |-> i, Nickname |-> Nicknames[i], ChannelID |-> cid,
     InputMuted |-> FALSE, OutputMuted |-> FALSE, Away |-> FALSE,
     AwayMessage |-> "", IdleTime |-> 0, IsRecording |-> FALSE]

\* no user, or users 1..MaxChanUsers of a channel in either order
UserLists(cid) ==
    UNION {{[i \in 1..n |-> PlainUser(i, cid)],
            [i \in 1..n |-> PlainUser(n + 1 - i, cid)]} : n \in {0, MaxChanUsers}}

MakeChannel(id, name, users) ==
    [ID |-> id, Name |-> name, ParentID |-> 0, Order |-> 0, Users |-> users]

ChannelLists ==
    UNION {{chs \in [1..n -> UNION {{MakeChannel(i, nm, us) :
                                       nm \in ChannelNames, us \in UserLists(i)} :
                                    i \in 1..n}] :
              \A i \in 1..n : chs[i].ID = i} : n \in 0..MaxChannels}

RECURSIVE SumUsers(_)
SumUsers(chs) ==
    IF chs = <<>> THEN 0 ELSE Len(Head(chs).Users) + SumUsers(Tail(chs))

MakeState(chs, total, max) ==
    [ServerName |-> "TS", Uptime |-> ExampleUptime, Channels |-> chs,
     TotalUsers |-> total, MaxClients |-> max]

\* snapshots that vary the channels
ChannelSnapshots ==
    {MakeState(chs, SumUsers(chs), ExampleCapacity) : chs \in ChannelLists}

\* snapshots that vary the occupancy and the capacity
CapacitySnapshots ==
    {MakeState(<<>>, u, c) : u \in 0..MaxOnline, c \in 0..MaxCapacity}

FlagUsers ==
    [ID : {1}, Nickname : {"alice"}, ChannelID : {1},
     InputMuted : BOOLEAN, OutputMuted : BOOLEAN, Away : BOOLEAN,
     AwayMessage : {"", "brb"}, IdleTime : IdleTimes, IsRecording : BOOLEAN]

\* snapshots that vary the flags of one user
StatusSnapshots ==
    {MakeState(<<MakeChannel(1, NameLobby, <<u>>)>>, 1, ExampleCapacity) :
        u \in FlagUsers}

\* Lobby with two users, an empty spacer, Gaming with three users
ExampleSnapshot ==
    MakeState(<<MakeChannel(1, NameLobby,
                            <<PlainUser(1, 1), PlainUser(2, 1)>>),
                MakeChannel(2, NameSpacer, <<>>),
                MakeChannel(3, NameGaming,
                            <<PlainUser(3, 3), PlainUser(4, 3), PlainUser(5, 3)>>)>>,
              5, ExampleCapacity)

ProjectionInputs ==
    {Nil, ExampleSnapshot} \cup ChannelSnapshots \cup CapacitySnapshots
    \cup StatusSnapshots

Displays ==
    {[ShowEmptyChannels |-> e, ThumbnailURL |-> d[1], ServerAddress |-> d[2],
      ServerPassword |-> d[3], CustomFooter |-> d[4],
      ChannelNameFormat |-> <<>>] :
        e \in BOOLEAN,
        d \in {<<"", "", "", "">>, <<"", "ts.example", "", "">>,
               <<"thumb.png", "ts.example", "secret", "footer">>}}

InitProjection ==
    /\ InitService({<<>>})
    /\ nameFormat = FALSE
    /\ tsChannels = <<>>
    /\ tsClients = <<>>
    /\ snapshot \in ProjectionInputs
    /\ display \in Displays
    /\ lastEmbed = Nil
    /\ prevEmbed = Nil

\* one call of buildEmbed on the snapshot
BuildEmbed ==
    /\ lastEmbed' = buildEmbed(snapshot, now)
    /\ prevEmbed' = lastEmbed
    /\ UNCHANGED <<bridgeVars, client, discordVars, remoteVars, now, obsVars,
                   tsChannels, tsClients, snapshot, display, configVars, lockVars>>

\* time passes between two calls
Elapse ==
    /\ now < MaxClock
    /\ now' = now + 1
    /\ UNCHANGED <<bridgeVars, client, discordVars, remoteVars, obsVars, dataVars,
                   configVars, lockVars>>

NextProjection == BuildEmbed \/ Elapse

SpecProjection == InitProjection /\ [][NextProjection]_vars

\* ------------------------------------------------- claims on the projection
Built == lastEmbed # Nil /\ snapshot # Nil

\* the lines of the Channels field of the last embed
ContentLines == lastEmbed.Fields[Len(lastEmbed.Fields)].Value.lines

IsHeader(l) == l.line = "header"
Headers == SelectSeq(ContentLines, IsHeader)

SpacerUpper == <<"S", "P", "A", "C", "E", "R">>
SpacerNamed(name) ==
    \E i \in 0..(Len(name) - 6) :
        \A k \in 1..6 : name[i + k] \in {SpacerWord[k], SpacerUpper[k]}

\* C15: the colour of the embed is the class of the occupancy u and the
\* capacity c: empty if u = 0, else critical if c = 0 or u/c >= 0.8, else busy
\* if u/c >= 0.5, else nominal; an absent snapshot gives the connecting colour,
\* which is none of the four.
C15_UrgencyClass ==
    /\ ColorConnecting \notin {ColorEmpty, ColorCritical, ColorBusy, ColorNominal}
    /\ (lastEmbed # Nil /\ snapshot = Nil) => lastEmbed.Color = ColorConnecting
    /\ Built =>
         LET u == snapshot.TotalUsers
             c == snapshot.MaxClients
         IN lastEmbed.Color =
              (IF u = 0 THEN ColorEmpty
               ELSE IF c = 0 \/ 5 * u >= 4 * c THEN ColorCritical
               ELSE IF 2 * u >= c THEN ColorBusy
               ELSE ColorNominal)

C15_Witness ==
    /\ Built
    /\ snapshot.TotalUsers = 8
    /\ snapshot.MaxClients = 10
    /\ lastEmbed.Color = ColorCritical

\* channels of the snapshot that are no spacer and, unless empty channels are
\* shown, have users
KeptIndexes ==
    {i \in 1..Len(snapshot.Channels) :
        /\ ~SpacerNamed(snapshot.Channels[i].Name)
        /\ display.ShowEmptyChannels \/ Len(snapshot.Channels[i].Users) > 0}

SpacerAndEmptyFiltered ==
    /\ \A i \in 1..Len(Headers) : ~SpacerNamed(Headers[i].name)
    /\ Len(Headers) = Cardinality(KeptIndexes)
    /\ ~display.ShowEmptyChannels =>
         \A i \in 1..Len(Headers) :
            Headers[i].count # <<>> /\ Headers[i].count[1] > 0

IsKept(ch) ==
    /\ ~SpacerNamed(ch.Name)
    /\ display.ShowEmptyChannels \/ Len(ch.Users) > 0

\* what the content names, top to bottom: channels and users
IsNamed(l) == l.line \in {"header", "user"}
NamedLines ==
    LET ls == SelectSeq(ContentLines, IsNamed)
    IN [i \in 1..Len(ls) |->
          IF ls[i].line = "header" THEN [channel |-> ls[i].name]
          ELSE [user |-> ls[i].name]]

\* the retained channels in snapshot order, each followed by its users
RECURSIVE ExpectedNames(_)
ExpectedNames(chs) ==
    IF chs = <<>> THEN <<>>
    ELSE (IF IsKept(Head(chs))
          THEN <<[channel |-> Head(chs).Name]>>
               \o [i \in 1..Len(Head(chs).Users) |->
                     [user |-> Head(chs).Users[i].Nickname]]
          ELSE <<>>)
         \o ExpectedNames(Tail(chs))

\* C17: the retained channels appear in the order of the snapshot, each
\* followed by its users in the order of the snapshot; when no channel is
\* retained the content is the placeholder; the example Lobby(2), spacer(0),
\* Gaming(3) with capacity 10 gives Lobby then Gaming in the busy colour.
C17_OrderPreserved ==
    Built =>
      /\ ExpectedNames(snapshot.Channels) # <<>> =>
           NamedLines = ExpectedNames(snapshot.Channels)
      /\ ExpectedNames(snapshot.Channels) = <<>> =>
           ContentLines = <<[line |-> "placeholder", text |-> "*No active channels*"]>>
      /\ snapshot = ExampleSnapshot =>
           /\ Headers = <<[line |-> "header", name |-> NameLobby, count |-> <<2>>],
                          [line |-> "header", name |-> NameGaming, count |-> <<3>>]>>
           /\ lastEmbed.Color = ColorBusy

C17_Witness ==
    /\ Built
    /\ snapshot = ExampleSnapshot
    /\ Len(ContentLines) = 8
    /\ ContentLines[4] = BlankLine
    /\ NamedLines = <<[channel |-> NameLobby], [user |-> "alice"], [user |-> "bob"],
                      [channel |-> NameGaming], [user |-> "carol"],
                      [user |-> "dave"], [user |-> "erin"]>>

IsUserLine(l) == l.line = "user"
UserStatuses == SelectSeq(ContentLines, IsUserLine)

\* the users of the snapshot that are listed, in order
RECURSIVE ListedUsers(_)
ListedUsers(chs) ==
    IF chs = <<>> THEN <<>>
    ELSE (IF IsKept(Head(chs)) THEN Head(chs).Users ELSE <<>>)
         \o ListedUsers(Tail(chs))

\* the markers the claim expects for a user, in order
ExpectedMarkers(u) ==
    (IF u.IsRecording THEN <<"recording">> ELSE <<>>)
    \o (IF u.OutputMuted THEN <<"output-muted">>
        ELSE IF u.InputMuted THEN <<"input-muted">> ELSE <<>>)
    \o (IF u.Away THEN <<"away">> ELSE <<>>)
    \o (IF u.IdleTime > 5 * Minute THEN <<"idle">> ELSE <<>>)

\* C18 as stated: the suffix of a listed user holds the markers recording,
\* one mute marker (output-muted before input-muted), away, idle, each
\* exactly when its condition holds, and the away marker is followed by the
\* away message when the user has one.
C18_StatusSuffix ==
    Built =>
      \A i \in 1..Len(UserStatuses) :
         LET u == ListedUsers(snapshot.Channels)[i]
             st == UserStatuses[i].status
         IN /\ [k \in 1..Len(st) |-> st[k].marker] = ExpectedMarkers(u)
            /\ (u.Away /\ u.AwayMessage # "") =>
                 \E k \in 1..Len(st) :
                    /\ st[k].marker = "away"
                    /\ "message" \in DOMAIN st[k]
                    /\ st[k].message = u.AwayMessage

\* C19 as stated: two calls of buildEmbed on the same snapshot and display,
\* made at any two times, return embeds equal in every field, and the calls
\* leave the state of the service as it was constructed.
C19_Deterministic ==
    prevEmbed # Nil =>
      /\ lastEmbed = prevEmbed
      /\ lastUserCount = 0 /\ lastChannelRename = ZeroTime /\ messageID = NoMessage

\* ------------------------------------------------ building the snapshot
MaxListed == 3

QueryType == 1
ServerInfo == [Name |-> "TS", Uptime |-> 93780, MaxClients |-> ExampleCapacity]

\* the optional parts of a client entry; <<>> is a nil pointer
VoiceExt == [InputMuted |-> <<TRUE>>, OutputMuted |-> <<>>, IsRecording |-> <<TRUE>>]
TimesExt == [IdleTime |-> <<6 * Minute>>]
ClientExts == {[Voice |-> Nil, Times |-> Nil], [Voice |-> VoiceExt, Times |-> TimesExt]}

\* answers of ChannelList: ids may repeat
RawChannelLists ==
    UNION {{chs \in [1..n -> [ID : 1..2, ChannelName : {NameLobby},
                              ParentID : {0}, ChannelOrder : {0}]] : TRUE} :
              n \in 0..MaxChannels}

\* answers of ClientList: channel id 3 belongs to no channel
RawClientLists ==
    UNION {{[i \in 1..n |->
               [ID |-> i, Nickname |-> Nicknames[i], ChannelID |-> f[i][1],
                Type |-> f[i][2], Away |-> FALSE, AwayMessage |-> "",
                Voice |-> e.Voice, Times |-> e.Times]] :
              f \in [1..n -> (1..3) \X {0, QueryType}], e \in ClientExts} :
           n \in 0..MaxListed}

\* the User built from a client entry
MakeUser(cl) ==
    [ID |-> cl.ID, Nickname |-> cl.Nickname, ChannelID |-> cl.ChannelID,
     Away |-> cl.Away, AwayMessage |-> cl.AwayMessage,
     InputMuted |-> IF cl.Voice # Nil /\ cl.Voice.InputMuted # <<>>
                    THEN cl.Voice.InputMuted[1] ELSE FALSE,
     OutputMuted |-> IF cl.Voice # Nil /\ cl.Voice.OutputMuted # <<>>
                     THEN cl.Voice.OutputMuted[1] ELSE FALSE,
     IsRecording |-> IF cl.Voice # Nil /\ cl.Voice.IsRecording # <<>>
                     THEN cl.Voice.IsRecording[1] ELSE FALSE,
     IdleTime |-> IF cl.Times # Nil /\ cl.Times.IdleTime # <<>>
                  THEN cl.Times.IdleTime[1] ELSE 0]

NotQuery(cl) == cl.Type # QueryType

\* the users appended under channelMap[id], in the order of the client list
RECURSIVE UsersOf(_, _)
UsersOf(id, clients) ==
    IF clients = <<>> THEN <<>>
    ELSE (IF NotQuery(Head(clients)) /\ Head(clients).ChannelID = id
          THEN <<MakeUser(Head(clients))>> ELSE <<>>)
         \o UsersOf(id, Tail(clients))

\* the State built that counts only the clients found in channelMap
assembleState_CountResolved(server, channels, clients) ==
    LET stateChannels ==
          [i \in 1..Len(channels) |->
             [ID |-> channels[i].ID, Name |-> channels[i].ChannelName,
              ParentID |-> channels[i].ParentID, Order |-> channels[i].ChannelOrder,
              Users |-> UsersOf(channels[i].ID, clients)]]
        ids == {channels[i].ID : i \in 1..Len(channels)}
        IsResolved(cl) == NotQuery(cl) /\ cl.ChannelID \in ids
    IN [ServerName |-> server.Name, Uptime |-> server.Uptime * Second,
        Channels |-> stateChannels,
        TotalUsers |-> Len(SelectSeq(clients, IsResolved)),
        MaxClients |-> server.MaxClients]

\* the State built from the three answers: channels in list order, each with
\* the users channelMap holds for its id; every non-query client counted
assembleState(server, channels, clients) ==
    LET stateChannels ==
          [i \in 1..Len(channels) |->
             [ID |-> channels[i].ID, Name |-> channels[i].ChannelName,
              ParentID |-> channels[i].ParentID, Order |-> channels[i].ChannelOrder,
              Users |-> UsersOf(channels[i].ID, clients)]]
    IN [ServerName |-> server.Name, Uptime |-> server.Uptime * Second,
        Channels |-> stateChannels,
        TotalUsers |-> Len(SelectSeq(clients, NotQuery)),
        MaxClients |-> server.MaxClients]

InitGetState ==
    /\ InitService({<<>>})
    /\ nameFormat = FALSE
    /\ tsChannels \in RawChannelLists
    /\ tsClients \in RawClientLists
    /\ snapshot = Nil
    /\ display = [ShowEmptyChannels |-> FALSE, ThumbnailURL |-> "",
                  ServerAddress |-> "", ServerPassword |-> "", CustomFooter |-> "",
                  ChannelNameFormat |-> IF nameFormat THEN DefaultFormat ELSE <<>>]
    /\ lastEmbed = Nil
    /\ prevEmbed = Nil

\* one call of GetState on the answers of the server
QueryState ==
    /\ \E fetchOK \in BOOLEAN :
         snapshot' = GetState(fetchOK,
                              assembleState(ServerInfo, tsChannels, tsClients)).state
    /\ UNCHANGED <<bridgeVars, client, discordVars, remoteVars, now, obsVars,
                   tsChannels, tsClients, display, lastEmbed, prevEmbed,
                   configVars, lockVars>>

NextGetState == StartTeamspeak \/ QueryState

SpecGetState == InitGetState /\ [][NextGetState]_vars

UniqueChannelIDs ==
    \A i, j \in 1..Len(tsChannels) : tsChannels[i].ID = tsChannels[j].ID => i = j

RealClients == {i \in 1..Len(tsClients) : tsClients[i].Type # QueryType}
Orphans ==
    {i \in RealClients :
        \A c \in 1..Len(tsChannels) : tsChannels[c].ID # tsClients[i].ChannelID}

\* the places (channel, position) where the user with this id is listed
PlacesOf(id) ==
    {<<c, k>> \in (1..Len(snapshot.Channels)) \X (1..MaxListed + 1) :
        /\ k <= Len(snapshot.Channels[c].Users)
        /\ snapshot.Channels[c].Users[k].ID = id}

\* C20: in a snapshot built from channels with unique ids, TotalUsers is the
\* number of non-ServerQuery clients and equals the users listed under the
\* channels plus the orphans; an orphan is listed nowhere and every other
\* user is listed once, under the channel its channel id names.
C20_TotalCountsOrphans ==
    (snapshot # Nil /\ UniqueChannelIDs) =>
      /\ snapshot.TotalUsers = Cardinality(RealClients)
      /\ snapshot.TotalUsers = SumUsers(snapshot.Channels) + Cardinality(Orphans)
      /\ \A i \in Orphans : PlacesOf(tsClients[i].ID) = {}
      /\ \A i \in RealClients \ Orphans :
            \E p \in PlacesOf(tsClients[i].ID) :
               /\ PlacesOf(tsClients[i].ID) = {p}
               /\ snapshot.Channels[p[1]].ID = tsClients[i].ChannelID
      /\ \A i \in (1..Len(tsClients)) \ RealClients : PlacesOf(tsClients[i].ID) = {}

C20_Witness ==
    /\ snapshot # Nil
    /\ UniqueChannelIDs
    /\ Len(tsChannels) = 2
    /\ Cardinality(Orphans) = 1
    /\ Cardinality(RealClients) = 2
    /\ Len(tsClients) = 3
    /\ snapshot.TotalUsers = 2
    /\ SumUsers(snapshot.Channels) = 1

\* the idle markers of a status suffix
IsIdleMarker(m) == m.marker = "idle"
IdleMarkers(st) == SelectSeq(st, IsIdleMarker)

\* C30: the suffix of a listed user has an idle marker exactly when the idle
\* time is more than 5 minutes; the marker shows whole hours and the whole
\* minutes modulo 60 when there is at least one hour, the minutes alone
\* otherwise: 70 minutes give 1h10m, exactly 5 minutes give no marker.
C30_IdleMarker ==
    Built =>
      \A i \in 1..Len(UserStatuses) :
         LET d == ListedUsers(snapshot.Channels)[i].IdleTime
             idle == IdleMarkers(UserStatuses[i].status)
             h == d \div (60 * 60 * 1000)
             m == (d \div (60 * 1000)) % 60
         IN /\ Len(idle) = (IF d > 5 * 60 * 1000 THEN 1 ELSE 0)
            /\ Len(idle) = 1 =>
                 /\ idle[1].value.minutes = m
                 /\ idle[1].value.hours = (IF h > 0 THEN <<h>> ELSE <<>>)
            /\ d = 70 * 60 * 1000 =>
                 idle = <<[marker |-> "idle",
                           value |-> [hours |-> <<1>>, minutes |-> 10]]>>
            /\ d = 5 * 60 * 1000 => idle = <<>>

C30_Witness ==
    /\ Built
    /\ Len(UserStatuses) = 1
    /\ ListedUsers(snapshot.Channels)[1].IdleTime = 70 * Minute
    /\ ListedUsers(snapshot.Channels)[1].Away
    /\ IdleMarkers(UserStatuses[1].status)[1].value = [hours |-> <<1>>, minutes |-> 10]

\* ------------------------------------------------- claims on the rename gate
Fetching == mainPC = "initial_update" \/ loopPC = "fetch"

\* C25: in one update the rename is attempted only after the edit of that
\* update has succeeded, at most one rename call is issued, and a failed
\* fetch is followed by no edit and no rename.
C25_RenameAfterEdit ==
    /\ [](/\ Count(calls, "ChannelEdit") <= 1
          /\ Count(calls, "ChannelMessageEditEmbed") <= 1
          /\ \A i \in 1..Len(calls) :
                calls[i] \in {"maybeUpdateChannelName", "ChannelEdit"} =>
                   /\ \E j \in 1..(i - 1) : calls[j] = "ChannelMessageEditEmbed"
                   /\ lastUpdate = "nil"
          /\ Applying => state # Nil
          /\ lastUpdate = "fetch_err" => calls = <<"GetState">>)
    /\ [][(Fetching /\ calls' # calls /\ state' = Nil) =>
             /\ lastUpdate' = "fetch_err"
             /\ ~Applying'
             /\ UNCHANGED <<channel, channelName, editTargets, lastUserCount,
                            lastChannelRename, gate>>]_vars

C25_Witness ==
    /\ calls = <<"GetState", "UpdateStatus", "ChannelMessageEditEmbed",
                 "maybeUpdateChannelName", "ChannelEdit">>
    /\ gate = "renamed"
    /\ lastUpdate = "nil"
    /\ tickerSyncs = 2
    /\ loopPC = "select"
    /\ lastUserCount = MaxUsers

\* C26: a successful rename comes at least five minutes after the one before
\* it, and the recorded time of the last rename never decreases.
C26_RenameSpacing ==
    /\ [][lastChannelRename' >= lastChannelRename]_vars
    /\ [][(lastChannelRename' # lastChannelRename \/ (GateStep /\ gate' = "renamed")) =>
             /\ lastChannelRename' = now
             /\ lastChannelRename # ZeroTime => now - lastChannelRename >= Cooldown]_vars

C26_Witness ==
    /\ gate = "renamed"
    /\ lastUserCount = 0
    /\ lastChannelRename >= Cooldown
    /\ "ChannelEdit" \in Range(calls)

\* C27: after Start the recorded count is 0 and the recorded time is the zero
\* time; with nothing renamed yet, an update with a non-zero count calls the
\* rename whatever the clock shows, and an update with count 0 calls none.
C27_FreshGate ==
    /\ [](/\ mainPC \in {"new", "start_discord", "initial_update", "failed"} =>
               (lastUserCount = 0 /\ lastChannelRename = ZeroTime)
          /\ lastChannelRename = ZeroTime => lastUserCount = 0)
    /\ [][(GateStep /\ lastChannelRename = ZeroTime /\ state.TotalUsers # 0) =>
             "ChannelEdit" \in Range(calls')]_vars
    /\ [][(Applying /\ lastChannelRename = ZeroTime /\ state.TotalUsers = 0) =>
             /\ "ChannelEdit" \notin Range(calls')
             /\ RenameStateUnchanged]_vars

C27_Witness ==
    /\ gate = "renamed"
    /\ initialSyncs = 1
    /\ tickerSyncs = 1
    /\ now = Cooldown - 1
    /\ lastChannelRename = now
    /\ lastUserCount > 0
    /\ loopPC = "select"
    /\ editTargets # {}

\* ------------------------------------------- the collaborators on their own
\* The two services behind their interfaces, called one call at a time by any
\* caller in any order. lifecycle holds the last call and what it returned,
\* calls the remote calls it made, state the snapshot last handed to
\* UpdateStatus.
Formats ==
    {<<>>, DefaultFormat, <<"{server}", "{online}", "{users}", "{online}">>}

Returned(err) == IF err THEN "return err" ELSE "return nil"

InitCollaborators ==
    /\ InitService({<<>>})
    /\ tsChannels = <<>>
    /\ tsClients = <<>>
    /\ snapshot = Nil
    /\ display \in {[ShowEmptyChannels |-> FALSE, ThumbnailURL |-> "",
                     ServerAddress |-> "", ServerPassword |-> "",
                     CustomFooter |-> "", ChannelNameFormat |-> f] : f \in Formats}
    /\ nameFormat = (display.ChannelNameFormat # <<>>)
    /\ lastEmbed = Nil
    /\ prevEmbed = Nil

\* teamspeak Start, by a caller that starts only a stopped service
SourceStart ==
    /\ client = "nil"
    /\ \E outcome \in TSStartOutcomes :
         LET r == teamspeakStart(outcome)
         IN /\ client' = r.client
            /\ lifecycle' = <<"ts.Start", Returned(r.err)>>
            /\ calls' = <<"NewClient">>
    /\ UNCHANGED <<bridgeVars, discordVars, remoteVars, now, creates,
                   editTargets, gate, tickerSyncs, initialSyncs, dataVars, configVars, lockVars>>

\* teamspeak Stop
SourceStop ==
    /\ client' = teamspeakStop.client
    /\ lifecycle' = <<"ts.Stop", Returned(teamspeakStop.err)>>
    /\ calls' = IF client = "nil" THEN <<>> ELSE <<"Close">>
    /\ UNCHANGED <<bridgeVars, discordVars, remoteVars, now, creates,
                   editTargets, gate, tickerSyncs, initialSyncs, dataVars, configVars, lockVars>>

\* teamspeak GetState
SourceGetState ==
    /\ \E fetchOK \in BOOLEAN, snap \in Snapshots :
         LET r == GetState(fetchOK, snap)
         IN /\ lifecycle' = <<"GetState", Returned(r.err)>>
            /\ calls' = IF client = "nil" THEN <<>> ELSE <<"Server.Info">>
    /\ UNCHANGED <<bridgeVars, client, discordVars, remoteVars, now, creates,
                   editTargets, gate, tickerSyncs, initialSyncs, dataVars, configVars, lockVars>>

\* discord Start, by a caller that starts only a service that is not running
SinkStart ==
    /\ session # "open"
    /\ \E fp \in DiscordFailPoints :
         LET r == discordStart(fp)
         IN /\ session' = r.session
            /\ messageID' = r.messageID
            /\ channel' = r.channel
            /\ creates' = creates + r.created
            /\ lifecycle' = <<"dc.Start", Returned(r.err)>>
            /\ calls' = IF fp \in {"new", "open"} THEN <<"Open">>
                        ELSE <<"Open", "ChannelMessages">>
                             \o (IF r.created = 1 \/ (r.err /\ fp = "create")
                                 THEN <<"ChannelMessageSendEmbed">> ELSE <<>>)
    /\ UNCHANGED <<bridgeVars, client, lastUserCount, lastChannelRename,
                   nameFormat, channelName, now, editTargets, gate, tickerSyncs,
                   initialSyncs, dataVars, configVars, lockVars>>

\* discord Stop
SinkStop ==
    /\ session' = discordStop.session
    /\ lifecycle' = <<"dc.Stop", Returned(discordStop.err)>>
    /\ calls' = IF session = "nil" THEN <<>> ELSE <<"Close">>
    /\ UNCHANGED <<bridgeVars, client, messageID, lastUserCount,
                   lastChannelRename, nameFormat, remoteVars, now, creates,
                   editTargets, gate, tickerSyncs, initialSyncs, dataVars, configVars, lockVars>>

\* discord UpdateStatus with any snapshot, also none
SinkUpdateStatus ==
    /\ \E st \in Snapshots \cup {Nil}, editOK \in BOOLEAN, renameOK \in BOOLEAN :
         LET r == UpdateStatus(st, editOK, renameOK)
         IN /\ state' = st
            /\ calls' = (IF r.edits = {} THEN <<>> ELSE <<"ChannelMessageEditEmbed">>)
                        \o (IF r.gate.outcome = "none" THEN <<>>
                            ELSE <<"maybeUpdateChannelName">>)
                        \o (IF r.gate.renameCalls = 1 THEN <<"ChannelEdit">> ELSE <<>>)
            /\ editTargets' = editTargets \cup r.edits
            /\ channel' = r.channel
            /\ channelName' = r.gate.channelName
            /\ lastUserCount' = r.gate.lastUserCount
            /\ lastChannelRename' = r.gate.lastChannelRename
            /\ gate' = r.gate.outcome
            /\ messageID' = r.messageID
            /\ creates' = creates + r.created
            /\ lastUpdate' = IF r.err THEN "apply_err" ELSE "nil"
            /\ lifecycle' = <<"UpdateStatus", Returned(r.err)>>
    /\ UNCHANGED <<mainPC, loopPC, done, wg, cancelled, tickPending, startResult,
                   stopResult, client, session, nameFormat, now, tickerSyncs,
                   initialSyncs, dataVars, configVars, lockVars>>

NextCollaborators ==
    \/ SourceStart
    \/ SourceStop
    \/ SourceGetState
    \/ SinkStart
    \/ SinkStop
    \/ SinkUpdateStatus

SpecCollaborators == InitCollaborators /\ [][NextCollaborators]_vars

\* C21 as stated: Stop of either service returns nil and does nothing on a
\* service that is not started; after a failed Start the service holds no
\* connection handle; GetState and UpdateStatus on a service that is not
\* running return the not-connected error and make no remote call.
C21_CollaboratorLifecycle ==
    /\ [](/\ lifecycle = <<"ts.Start", "return err">> => client = "nil"
          /\ lifecycle = <<"dc.Start", "return err">> => session = "nil"
          /\ lifecycle \in {<<"ts.Stop", "return nil">>} => client = "nil"
          /\ lifecycle \in {<<"dc.Stop", "return nil">>} => session = "nil")
    /\ [][SourceStop => /\ lifecycle' = <<"ts.Stop", "return nil">>
                        /\ client = "nil" => calls' = <<>>]_vars
    /\ [][SinkStop => /\ lifecycle' = <<"dc.Stop", "return nil">>
                      /\ session = "nil" => calls' = <<>>]_vars
    /\ [][(SourceGetState /\ client # "open") =>
             (lifecycle' = <<"GetState", "return err">> /\ calls' = <<>>)]_vars
    /\ [][(SinkUpdateStatus /\ session # "open") =>
             (lifecycle' = <<"UpdateStatus", "return err">> /\ calls' = <<>>)]_vars

\* the name the claim expects from a format and a snapshot
ExpectedName(format, st) ==
    [i \in 1..Len(format) |->
        CASE format[i] = "{online}" -> [num |-> st.TotalUsers]
          [] format[i] = "{max}" -> [num |-> st.MaxClients]
          [] format[i] = "{server}" -> [lit |-> st.ServerName]
          [] OTHER -> [lit |-> format[i]]]

\* C23: without a channel name format, or with no snapshot, UpdateStatus
\* calls no rename and leaves the recorded count and time alone, over any
\* sequence of calls; with a format, the name sent is the format with
\* {online}, {max} and {server} replaced by count, capacity and server name.
C23_TemplateRename ==
    /\ [](~nameFormat =>
            /\ lastUserCount = 0
            /\ lastChannelRename = ZeroTime
            /\ channelName = <<[lit |-> "voice-status"]>>
            /\ gate = "none")
    /\ [][SinkUpdateStatus =>
            /\ (~nameFormat \/ state' = Nil) =>
                 /\ RenameStateUnchanged
                 /\ "maybeUpdateChannelName" \notin Range(calls')
                 /\ "ChannelEdit" \notin Range(calls')
            /\ gate' = "renamed" =>
                 /\ nameFormat /\ state' # Nil
                 /\ "ChannelEdit" \in Range(calls')
                 /\ channelName' = ExpectedName(display.ChannelNameFormat, state')]_vars

C23_Witness ==
    /\ gate = "renamed"
    /\ lifecycle = <<"UpdateStatus", "return nil">>
    /\ display.ChannelNameFormat = <<"{server}", "{online}", "{users}", "{online}">>
    /\ channelName = <<[lit |-> "TS"], [num |-> 2], [lit |-> "{users}"], [num |-> 2]>>
    /\ lastUserCount = 2

\* ------------------------------------------------ Stop called at any time
\* Stop of the bridge entered by a caller while no Start and no Stop is
\* running: before Start, after Start failed, or after an earlier Stop
\* returned. close(s.done) on the closed channel panics.
StopCall ==
    /\ mainPC \in {"new", "failed", "stopped"}
    /\ mainPC' = IF done THEN "panic" ELSE "stop_wait"
    /\ done' = TRUE
    /\ lifecycle' = lifecycle \o (IF done THEN <<"panic">> ELSE <<"close done">>)
    /\ UNCHANGED <<dataVars, configVars, lockVars>>
    /\ UNCHANGED <<loopPC, wg, cancelled, tickPending, state, startResult,
                   stopResult, lastUpdate, client, discordVars, remoteVars, now,
                   calls, creates, editTargets, gate, tickerSyncs,
                   initialSyncs>>

NextStop ==
    \/ StartTeamspeak
    \/ StartDiscord
    \/ StopCall
    \/ StopWait
    \/ StopDiscord
    \/ StopTeamspeak

SpecStop == Init /\ [][NextStop]_vars

\* C29 as stated: a Stop called when Start never ran or failed, and a second
\* Stop after a first one, complete without fault, return nil and leave both
\* collaborators stopped.
C29_StopRepeatable ==
    /\ mainPC # "panic"
    /\ mainPC = "stopped" =>
         (stopResult = "nil" /\ client = "nil" /\ session = "nil")

\* ------------------------------------------------ loading the configuration
\* documents: each required key empty or set, update_interval absent or a
\* value around the minimum
ConfigFiles ==
    [host : {"", "ts.example"}, password : {"", "pw"}, token : {"", "tok"},
     channel_id : {"", "chan"},
     update_interval :
       {Unset} \cup {Value(d) : d \in {0 - Second, 0, Second, MinInterval - 1,
                                        MinInterval, MinInterval + 1,
                                        DefaultInterval}}]

\* run() before config.Load: any document, no bridge yet
InitConfig ==
    /\ mainPC = "load"
    /\ configFile \in ConfigFiles
    /\ loaded = [cfg |-> NilConfig, err |-> "none"]
    /\ bridgeCfg = NilConfig
    /\ InitFields({<<>>})
    /\ nameFormat = FALSE
    /\ InitData

\* config.Load in run(): on an error run returns
LoadConfig ==
    /\ mainPC = "load"
    /\ \E readOK, parseOK \in BOOLEAN :
         loaded' = Load(configFile, readOK, parseOK)
    /\ mainPC' = IF loaded'.err = "nil" THEN "loaded" ELSE "exit"
    /\ UNCHANGED <<loopPC, done, wg, cancelled, tickPending, state, startResult,
                   stopResult, lastUpdate, client, discordVars, remoteVars, now,
                   obsVars, dataVars, configFile, bridgeCfg, lockVars>>

\* bridge.NewService in run(), from the configuration Load returned
NewBridge ==
    /\ mainPC = "loaded"
    /\ bridgeCfg' = NewBridgeConfig(loaded.cfg)
    /\ mainPC' = "new"
    /\ UNCHANGED <<loopPC, done, wg, cancelled, tickPending, state, startResult,
                   stopResult, lastUpdate, client, discordVars, remoteVars, now,
                   obsVars, dataVars, configFile, loaded, lockVars>>

NextConfig == LoadConfig \/ NewBridge \/ StartTeamspeak

SpecConfig == InitConfig /\ [][NextConfig]_vars

\* C22: a bridge, and so the ticker of its loop, only ever has an interval of
\* at least 5 seconds; a document whose update interval is below 5 seconds is
\* rejected by Load with an error and no bridge is built from it; an interval
\* of 5 seconds or more is never the reason of a rejection.
C22_MinimumInterval ==
    /\ bridgeCfg # NilConfig => bridgeCfg.UpdateInterval >= MinInterval
    /\ mainPC # "load" /\ Unmarshal(configFile).UpdateInterval < MinInterval =>
         /\ loaded.err \notin {"nil", "none"}
         /\ loaded.cfg = NilConfig
         /\ bridgeCfg = NilConfig
         /\ mainPC = "exit"
    /\ loaded.err = IntervalError =>
         Unmarshal(configFile).UpdateInterval < MinInterval
    /\ mainPC \notin {"load", "loaded", "exit"} => bridgeCfg # NilConfig

\* a document just below the minimum was rejected for its interval
C22_Witness ==
    /\ configFile.update_interval = Value(MinInterval - 1)
    /\ loaded.err = IntervalError
    /\ mainPC = "exit"

\* ------------------------------------- concurrent callers of the discord service
\* Three goroutines each make one call of Start, Stop or UpdateStatus on the
\* same service. A body is split where it calls Discord, so that what another
\* caller could do meanwhile shows.
\* the snapshots a caller hands to UpdateStatus
Arguments == {Nil} \cup {st \in Snapshots : st.MaxClients = MaxUsers}

\* return of a method: the deferred s.mu.Unlock() runs
Return(c, err) ==
    /\ callers' = [callers EXCEPT ![c].pc = "returned",
                                  ![c].result = Returned(err)]
    /\ mu' = "free"

\* a goroutine calls a method and reaches s.mu.Lock(); during records the
\* calls that have begun and not returned
Call(c) ==
    /\ callers[c].pc = "idle"
    /\ \E op \in {"Start", "Stop", "UpdateStatus"}, st \in Arguments :
         /\ op # "UpdateStatus" => st = Nil
         /\ callers' = [callers EXCEPT ![c] = [pc |-> "lock", op |-> op,
                                               st |-> st, result |-> "none",
                                               during |->
                                                 {d \in Callers :
                                                    callers[d].pc \notin
                                                      {"idle", "returned"}}]]
    /\ UNCHANGED <<bridgeVars, client, discordVars, remoteVars, now, obsVars,
                   dataVars, configVars, mu, renameLog>>

\* s.mu.Lock() that does not wait
Acquire_NoLock(c) ==
    /\ callers[c].pc = "lock"
    /\ mu' = c
    /\ callers' = [callers EXCEPT ![c].pc = "body"]
    /\ UNCHANGED <<bridgeVars, client, discordVars, remoteVars, now, obsVars,
                   dataVars, configVars, renameLog>>

\* s.mu.Lock()
Acquire(c) ==
    /\ callers[c].pc = "lock"
    /\ mu = "free"
    /\ mu' = c
    /\ callers' = [callers EXCEPT ![c].pc = "body"]
    /\ UNCHANGED <<bridgeVars, client, discordVars, remoteVars, now, obsVars,
                   dataVars, configVars, renameLog>>

\* body of Start
StartBody(c) ==
    /\ callers[c].pc = "body"
    /\ callers[c].op = "Start"
    /\ \E fp \in DiscordFailPoints :
         LET r == discordStart(fp)
         IN /\ session' = r.session
            /\ messageID' = r.messageID
            /\ channel' = r.channel
            /\ creates' = creates + r.created
            /\ Return(c, r.err)
    /\ UNCHANGED <<bridgeVars, client, lastUserCount, lastChannelRename,
                   nameFormat, channelName, now, lifecycle, calls, editTargets,
                   gate, tickerSyncs, initialSyncs, dataVars, configVars,
                   renameLog>>

\* body of Stop
StopBody(c) ==
    /\ callers[c].pc = "body"
    /\ callers[c].op = "Stop"
    /\ session' = discordStop.session
    /\ Return(c, discordStop.err)
    /\ UNCHANGED <<bridgeVars, client, messageID, lastUserCount,
                   lastChannelRename, nameFormat, remoteVars, now, obsVars,
                   dataVars, configVars, renameLog>>

\* body of UpdateStatus up to the call of maybeUpdateChannelName
EditStep(c) ==
    /\ callers[c].pc = "body"
    /\ callers[c].op = "UpdateStatus"
    /\ \E editOK \in BOOLEAN :
         LET st == callers[c].st
             sent == session # "nil"
             ok == sent /\ editOK /\ HasMessage(channel, messageID)
         IN /\ editTargets' = IF sent THEN editTargets \cup {messageID}
                              ELSE editTargets
            /\ channel' = IF ok THEN EditMessage(channel, messageID, embedKind(st))
                          ELSE channel
            /\ IF ok /\ nameFormat /\ st # Nil
               THEN /\ callers' = [callers EXCEPT ![c].pc = "gate"]
                    /\ mu' = mu
               ELSE Return(c, ~ok)
    /\ UNCHANGED <<bridgeVars, client, discordVars, channelName, now, lifecycle,
                   calls, creates, gate, tickerSyncs, initialSyncs, dataVars,
                   configVars, renameLog>>

\* maybeUpdateChannelName: the two checks of the recorded count and time
GateCheck(c) ==
    /\ callers[c].pc = "gate"
    /\ LET st == callers[c].st
       IN IF st.TotalUsers = lastUserCount
          THEN gate' = "unchanged" /\ Return(c, FALSE)
          ELSE IF Since(lastChannelRename) < Cooldown
          THEN gate' = "cooldown" /\ Return(c, FALSE)
          ELSE /\ gate' = gate
               /\ callers' = [callers EXCEPT ![c].pc = "rename"]
               /\ mu' = mu
    /\ UNCHANGED <<bridgeVars, client, discordVars, remoteVars, now, lifecycle,
                   calls, creates, editTargets, tickerSyncs, initialSyncs,
                   dataVars, configVars, renameLog>>

\* maybeUpdateChannelName: ChannelEdit and the record of its success
RenameStep(c) ==
    /\ callers[c].pc = "rename"
    /\ \E renameOK \in BOOLEAN :
         LET st == callers[c].st
         IN /\ renameLog' = Append(renameLog, [by |-> c, ok |-> renameOK])
            /\ channelName' = IF renameOK THEN ChannelName(st) ELSE channelName
            /\ lastUserCount' = IF renameOK THEN st.TotalUsers ELSE lastUserCount
            /\ lastChannelRename' = IF renameOK THEN now ELSE lastChannelRename
            /\ gate' = IF renameOK THEN "renamed" ELSE "failed"
    /\ Return(c, FALSE)
    /\ UNCHANGED <<bridgeVars, client, session, messageID, nameFormat, channel,
                   now, lifecycle, calls, creates, editTargets, tickerSyncs,
                   initialSyncs, dataVars, configVars>>

NextMutex ==
    \E c \in Callers :
        \/ Call(c)
        \/ Acquire(c)
        \/ StartBody(c)
        \/ StopBody(c)
        \/ EditStep(c)
        \/ GateCheck(c)
        \/ RenameStep(c)

SpecMutex == InitLive /\ [][NextMutex]_vars

\* caller c is inside the body of its method
InBody(c) == callers[c].pc \in {"body", "gate", "rename"}

\* the ChannelEdit calls of callers c and d, in order
RenamesBy(c, d) == SelectSeq(renameLog, LAMBDA r : r.by \in {c, d})

\* c called UpdateStatus while d's call of it was running, both with the same
\* count, which differs from the count recorded at first
SameChangedCount(c, d) ==
    /\ c # d
    /\ d \in callers[c].during
    /\ callers[c].op = "UpdateStatus" /\ callers[c].st # Nil
    /\ callers[d].op = "UpdateStatus" /\ callers[d].st # Nil
    /\ callers[c].st.TotalUsers = callers[d].st.TotalUsers
    /\ callers[c].st.TotalUsers # 0

\* at most one caller is inside a body, and it holds the mutex: no check or
\* update of the recorded count and no edit runs while another body, a Stop
\* included, is running
Serialized ==
    /\ \A c, d \in Callers : InBody(c) /\ InBody(d) => c = d
    /\ \A c \in Callers : InBody(c) => mu = c

\* C24 as stated: the bodies are serialized and two concurrent UpdateStatus
\* calls with the same changed count make at most one rename call.
C24_OneRenameCall ==
    /\ Serialized
    /\ \A c, d \in Callers :
         SameChangedCount(c, d) => Len(RenamesBy(c, d)) <= 1

\* C24 amended: the bodies are serialized; two concurrent UpdateStatus calls
\* with the same changed count make at most one rename that succeeds, and the
\* second of them calls for a rename only when the first one's call failed.
C24_OneRename ==
    /\ Serialized
    /\ \A c, d \in Callers :
         SameChangedCount(c, d) =>
           LET log == RenamesBy(c, d)
           IN /\ Cardinality({i \in 1..Len(log) : log[i].ok}) <= 1
              /\ Len(log) >= 2 =>
                   /\ Len(log) = 2
                   /\ ~log[1].ok
                   /\ log[1].by # log[2].by

\* both calls returned nil on a started service: the first renamed and the
\* gate stopped the second
C24_Witness ==
    \E c, d \in Callers :
        /\ SameChangedCount(c, d)
        /\ callers[c].result = "return nil"
        /\ callers[d].result = "return nil"
        /\ renameLog = <<[by |-> d, ok |-> TRUE]>>
        /\ gate = "unchanged"

\* ------------------------------------------------ the loop that keeps ticking
\* The bridge with no Stop and no signal: the ticker fires for ever and time
\* passes for ever. The clock stays within MaxTime by moving its origin: at
\* MaxTime a minute more moves the recorded rename time one minute back, down
\* to the age at which the cooldown has expired.
TickerFireAgain ==
    /\ loopPC \in {"select", "fetch", "apply"}
    /\ ~tickPending
    /\ tickPending' = TRUE
    /\ UNCHANGED <<dataVars, configVars, lockVars>>
    /\ UNCHANGED <<mainPC, loopPC, done, wg, cancelled, state, startResult,
                   stopResult, lastUpdate, client, discordVars, remoteVars, now,
                   lifecycle, calls, creates, editTargets, gate, tickerSyncs,
                   initialSyncs>>

\* select: case <-ticker.C, entering s.update(ctx), any number of times
LoopTickAgain ==
    /\ loopPC = "select"
    /\ tickPending
    /\ tickPending' = FALSE
    /\ loopPC' = "fetch"
    /\ tickerSyncs' = Min(tickerSyncs + 1, MaxTicks)
    /\ UNCHANGED <<dataVars, configVars, lockVars>>
    /\ UNCHANGED <<mainPC, done, wg, cancelled, state, startResult, stopResult,
                   lastUpdate, client, discordVars, remoteVars, now, lifecycle,
                   calls, creates, editTargets, gate, initialSyncs>>

\* a minute passes
TimePasses ==
    /\ now' = Min(now + 1, MaxTime)
    /\ lastChannelRename' =
         IF now < MaxTime \/ Since(lastChannelRename) >= Cooldown
         THEN lastChannelRename ELSE lastChannelRename - 1
    /\ UNCHANGED <<dataVars, configVars, lockVars>>
    /\ UNCHANGED <<bridgeVars, client, session, messageID, lastUserCount,
                   nameFormat, remoteVars, obsVars>>

NextTicking ==
    \/ StartTeamspeak
    \/ StartDiscord
    \/ InitialFetch
    \/ InitialApply
    \/ LaunchLoop
    \/ TickerFireAgain
    \/ LoopTickAgain
    \/ LoopFetch
    \/ LoopApply
    \/ TimePasses

\* the ticker fires at every interval, the loop receives the tick, the calls
\* of update() return, and time passes
FairTicking ==
    /\ WF_vars(TickerFireAgain)
    /\ WF_vars(LoopTickAgain)
    /\ WF_vars(LoopFetch)
    /\ WF_vars(LoopApply)
    /\ WF_vars(TimePasses)

\* a template is configured and the channel starts empty
InitTicking == InitLive /\ nameFormat

SpecTicking == InitTicking /\ [][NextTicking]_vars /\ FairTicking

\* every snapshot fetched carries c users and no fetch, edit or rename fails
Steady(c) ==
    /\ state # Nil => state.TotalUsers = c
    /\ lastUpdate \notin {"fetch_err", "apply_err"}
    /\ gate # "failed"

\* C28: with a template configured and the loop ticking, if from some point on
\* every fetched count is c and every fetch, edit and rename succeeds, then
\* from some point on the recorded count is c, and the channel carries the
\* name made from c if c was ever different from the recorded count.
C28_RenameConverges ==
    \A c \in 0..MaxUsers :
        (<>(loopPC = "select") /\ <>[]Steady(c)) =>
            <>[](/\ lastUserCount = c
                 /\ c # 0 => channelName[1] = [num |-> c])

\* a tick of the loop renamed the channel once the cooldown of the rename of
\* the initial update had passed
C28_Witness ==
    /\ loopPC = "select"
    /\ tickerSyncs >= 1
    /\ gate = "renamed"
    /\ lastUserCount = MaxUsers
    /\ channelName[1] = [num |-> MaxUsers]
    /\ now >= Cooldown
    /\ lastChannelRename = now
    /\ \E i \in 1..Len(lifecycle) : lifecycle[i] = "go loop"

====
